---- MODULE Spec2Model ----
(***************************************************************************)
(* MapColumn (be/src/column/map_column.cpp): a column of MAP rows kept as  *)
(* an offset buffer over two nullable child columns (keys, values).        *)
(* Offsets, keys and values are 0-based in the code; the sequences below   *)
(* are 1-based, so code index i is sequence index i + 1.                   *)
(***************************************************************************)
EXTENDS Integers, Sequences, FiniteSets, TLC

\* Bounds of the model: rows and elements a column may hold in Spec.
MaxRows == 3
MaxElems == 3
\* Longest index list of append_selective, most repetitions of one row.
MaxSelect == 2
MaxRepeat == 2
\* Wide columns hold up to MaxBatches AVX2 batches and MaxFrom more rows;
\* filter_range starts at a row up to MaxFrom.
MaxBatches == 2
MaxFrom == 2

\* A null element of a nullable child column.
Null == 0
\* Width of one AVX2 batch of filter bytes: 256 / 8.
kBatchSize == 32
\* Column::MAX_CAPACITY_LIMIT, the fixed ceiling of upgrade_if_overflow. Its
\* value is declared in column.h; it is scaled here so that columns below, at
\* and above the ceiling all occur.
MAX_CAPACITY_LIMIT == 2

KeyDom == {Null, 1, 2}
ValDom == {1, 2}
\* Bytes a Column::Filter (std::vector<uint8_t>) holds in the model.
FilterDom == {0, 1, 128}

\* offsets, keys, values: the column's three members. widths: the
\* representation ("narrow" or "wide") each child currently has. frame: the
\* locals of an update_rows or assign call that is under way. last: the
\* operation the caller invoked last, with its arguments and results. heap:
\* the objects of the other classes (VectorizedField, StructType, EtlStatus)
\* the calls on those classes work on.
VARIABLES offsets, keys, values, widths, frame, heap, last

vars == <<offsets, keys, values, widths, frame, heap, last>>

Col == [offsets |-> offsets, keys |-> keys, values |-> values]

----------------------------------------------------------------------------
\* Helpers over buffers.

\* get_data()[i]
At(s, i) == s[i + 1]

\* get_data().back()
back(s) == s[Len(s)]

SetMax(S) == CHOOSE x \in S : \A y \in S : y <= x

SetMin(S) == CHOOSE x \in S : \A y \in S : x <= y

RECURSIVE SeqsUpTo(_, _)
SeqsUpTo(D, n) ==
    IF n = 0 THEN {<<>>}
    ELSE LET shorter == SeqsUpTo(D, n - 1)
         IN shorter \cup {Append(s, d) : s \in {t \in shorter : Len(t) = n - 1}, d \in D}

SeqsOfLen(D, n) == {s \in SeqsUpTo(D, n) : Len(s) = n}

----------------------------------------------------------------------------
\* The child column capability set (nullable children), as sequences of
\* elements.

child_append(dst, src, off, cnt) == dst \o SubSeq(src, off + 1, off + cnt)

child_resize(col, n) ==
    IF n <= Len(col) THEN SubSeq(col, 1, n)
    ELSE col \o [i \in 1..(n - Len(col)) |-> Null]

RECURSIVE child_kept(_, _, _, _)
child_kept(col, filter, from, to) ==
    IF from >= to THEN <<>>
    ELSE IF to = from + 1
    THEN (IF filter[from + 1] # 0 THEN <<col[from + 1]>> ELSE <<>>)
    ELSE LET mid == (from + to) \div 2
         IN child_kept(col, filter, from, mid) \o child_kept(col, filter, mid, to)

\* filter_range(filter, from, to) of a child: the elements before from stay,
\* those of [from, to) whose filter byte is set follow; the result is the
\* child and its new size.
child_filter_range(col, filter, from, to) ==
    LET res == SubSeq(col, 1, from) \o child_kept(col, filter, from, to)
    IN [col |-> res, ret |-> Len(res)]

\* update_rows(src, indexes) of a child: element indexes[i] becomes src[i].
child_update_rows(col, src, idxes) ==
    [j \in 1..Len(col) |->
        LET hits == {i \in 1..Len(src) : idxes[i] = j - 1}
        IN IF hits = {} THEN col[j] ELSE src[SetMax(hits)]]

\* serialize of a nullable child element: the null flag, then the datum.
child_serialize(e) == IF e = Null THEN <<1>> ELSE <<0, e>>

child_serialize_size(e) == IF e = Null THEN 1 ELSE 2

child_deserialize(buf, pos) ==
    IF buf[pos + 1] = 1 THEN [elem |-> Null, pos |-> pos + 1]
    ELSE [elem |-> buf[pos + 2], pos |-> pos + 2]

----------------------------------------------------------------------------
\* MapColumn.

\* MapColumn::MapColumn: an empty offset buffer gets the 0 sentinel.
MapColumn(k, v, o) ==
    [offsets |-> IF o = <<>> THEN <<0>> ELSE o, keys |-> k, values |-> v]

size(c) == Len(c.offsets) - 1

get_map_size(c, idx) == At(c.offsets, idx + 1) - At(c.offsets, idx)

clone_empty(c) == MapColumn(<<>>, <<>>, <<>>)

\* Mutant of resize: the children are not resized.
resize_mutant(c, n) ==
    LET old == c.offsets
    IN [c EXCEPT !.offsets = IF n + 1 <= Len(old) THEN SubSeq(old, 1, n + 1)
                             ELSE old \o [i \in 1..(n + 1 - Len(old)) |-> back(old)]]

\* Mutant of resize: the offsets are padded but never truncated.
resize_grow_mutant(c, n) ==
    LET old == c.offsets
        offs == IF n + 1 <= Len(old) THEN old
                ELSE old \o [i \in 1..(n + 1 - Len(old)) |-> back(old)]
        array_size == back(offs)
    IN [offsets |-> offs,
        keys |-> child_resize(c.keys, array_size),
        values |-> child_resize(c.values, array_size)]

resize(c, n) ==
    LET old == c.offsets
        offs == IF n + 1 <= Len(old) THEN SubSeq(old, 1, n + 1)
                ELSE old \o [i \in 1..(n + 1 - Len(old)) |-> back(old)]
        array_size == back(offs)
    IN [offsets |-> offs,
        keys |-> child_resize(c.keys, array_size),
        values |-> child_resize(c.values, array_size)]

\* Mutant of append_offsets: the span is taken up to the end of the range
\* instead of up to the next row.
RECURSIVE append_offsets_mutant(_, _, _, _)
append_offsets_mutant(offs, src_offsets, i, end) ==
    IF i >= end THEN offs
    ELSE LET l == At(src_offsets, end) - At(src_offsets, i)
         IN append_offsets_mutant(Append(offs, back(offs) + l), src_offsets, i + 1, end)

\* The loop of append over the source rows [i, end).
RECURSIVE append_offsets(_, _, _, _)
append_offsets(offs, src_offsets, i, end) ==
    IF i >= end THEN offs
    ELSE LET l == At(src_offsets, i + 1) - At(src_offsets, i)
         IN append_offsets(Append(offs, back(offs) + l), src_offsets, i + 1, end)

append(c, src, offset, count) ==
    LET src_offsets == src.offsets
        src_offset == At(src_offsets, offset)
        src_count == At(src_offsets, offset + count) - src_offset
    IN [offsets |-> append_offsets(c.offsets, src_offsets, offset, offset + count),
        keys |-> child_append(c.keys, src.keys, src_offset, src_count),
        values |-> child_append(c.values, src.values, src_offset, src_count)]

\* The element range append hands to the source's children.
append_calls(src, offset, count) ==
    LET src_offset == At(src.offsets, offset)
        src_count == At(src.offsets, offset + count) - src_offset
    IN {[child |-> ch, from |-> src_offset, size |-> src_count, limit |-> back(src.offsets)]
        : ch \in {"keys", "values"}}

\* Mutant of append_selective: indexes[from] is read at every step.
RECURSIVE append_selective_mutant(_, _, _, _, _)
append_selective_mutant(c, src, indexes, from, sz) ==
    IF sz = 0 THEN c
    ELSE append_selective_mutant(append(c, src, At(indexes, from), 1), src, indexes,
                                 from, sz - 1)

RECURSIVE append_selective(_, _, _, _, _)
append_selective(c, src, indexes, from, sz) ==
    IF sz = 0 THEN c
    ELSE append_selective(append(c, src, At(indexes, from), 1), src, indexes, from + 1, sz - 1)

RECURSIVE append_value_multiple_times(_, _, _, _)
append_value_multiple_times(c, src, index, sz) ==
    IF sz = 0 THEN c
    ELSE append_value_multiple_times(append(c, src, index, 1), src, index, sz - 1)

\* A DatumMap (std::map) is a function from its keys to its values; the
\* code iterates it in ascending key order.
RECURSIVE SortedKeys(_)
SortedKeys(S) ==
    IF S = {} THEN <<>>
    ELSE LET m == SetMin(S) IN <<m>> \o SortedKeys(S \ {m})

append_datum(c, map) ==
    LET ks == SortedKeys(DOMAIN map)
        map_size == Cardinality(DOMAIN map)
    IN [offsets |-> Append(c.offsets, back(c.offsets) + map_size),
        keys |-> c.keys \o ks,
        values |-> c.values \o [i \in 1..Len(ks) |-> map[ks[i]]]]

\* Mutant of append_datum_multiple_times: the loop runs once more.
RECURSIVE append_datum_multiple_times_mutant(_, _, _)
append_datum_multiple_times_mutant(c, map, count) ==
    IF count < 0 THEN c
    ELSE append_datum_multiple_times_mutant(append_datum(c, map), map, count - 1)

RECURSIVE append_datum_multiple_times(_, _, _)
append_datum_multiple_times(c, map, count) ==
    IF count = 0 THEN c
    ELSE append_datum_multiple_times(append_datum(c, map), map, count - 1)

\* Mutant of append_nulls: each new row ends one element further on.
RECURSIVE append_nulls_mutant(_, _)
append_nulls_mutant(c, count) ==
    IF count = 0 THEN c
    ELSE append_nulls_mutant([c EXCEPT !.offsets = Append(c.offsets, back(c.offsets) + 1)],
                             count - 1)

RECURSIVE append_nulls(_, _)
append_nulls(c, count) ==
    IF count = 0 THEN c
    ELSE append_nulls([c EXCEPT !.offsets = Append(c.offsets, back(c.offsets))], count - 1)

append_default(c) == [c EXCEPT !.offsets = Append(c.offsets, back(c.offsets))]

append_default_n(c, count) ==
    LET offset == back(c.offsets)
    IN [c EXCEPT !.offsets = c.offsets \o [i \in 1..count |-> offset]]

\* res[key] = value of std::map: the entry of key is created or overwritten.
map_put(res, key, value) ==
    [k \in DOMAIN res \cup {key} |-> IF k = key THEN value ELSE res[k]]

\* Mutant of get_loop: an entry that exists already is kept, as insert or
\* emplace would.
RECURSIVE get_loop_mutant(_, _, _, _, _)
get_loop_mutant(c, res, offset, map_size, i) ==
    IF i >= map_size THEN res
    ELSE IF At(c.keys, offset + i) # Null /\ At(c.keys, offset + i) \notin DOMAIN res
    THEN get_loop_mutant(c, map_put(res, At(c.keys, offset + i), At(c.values, offset + i)),
                         offset, map_size, i + 1)
    ELSE get_loop_mutant(c, res, offset, map_size, i + 1)

\* The loop of get over the elements i, i+1, ... of the row; an element
\* whose key is null is skipped.
RECURSIVE get_loop(_, _, _, _, _)
get_loop(c, res, offset, map_size, i) ==
    IF i >= map_size THEN res
    ELSE IF At(c.keys, offset + i) # Null
    THEN get_loop(c, map_put(res, At(c.keys, offset + i), At(c.values, offset + i)),
                  offset, map_size, i + 1)
    ELSE get_loop(c, res, offset, map_size, i + 1)

\* get(idx): the row as a DatumMap.
get(c, idx) ==
    LET offset == At(c.offsets, idx)
        map_size == At(c.offsets, idx + 1) - offset
    IN get_loop(c, <<>>, offset, map_size, 0)

\* set_null(idx): the column has no null rows of its own.
set_null(c, idx) == [col |-> c, ret |-> FALSE]

swap_column(c, rhs) == [this |-> rhs, rhs |-> c]

\* Mutant of reset_column: the offsets are emptied, the sentinel included.
reset_column_mutant(c) == [offsets |-> <<>>, keys |-> <<>>, values |-> <<>>]

reset_column(c) == [offsets |-> SubSeq(c.offsets, 1, 1), keys |-> <<>>, values |-> <<>>]

assign(c, n, idx) ==
    LET desc == clone_empty(c)
        datum == get(c, idx)
        filled == append_datum_multiple_times(desc, datum, n)
    IN swap_column(c, filled).this

----------------------------------------------------------------------------
\* update_rows and fill_default.

need_resize(c, src, indexes) ==
    \E i \in 0..(size(src) - 1) :
        At(c.offsets, At(indexes, i) + 1) - At(c.offsets, At(indexes, i))
            # At(src.offsets, i + 1) - At(src.offsets, i)

\* The element indexes of the fast path, for the replaced rows i, i+1, ...
\* Mutant of element_idxes: the offset of row i is taken, not that of row
\* indexes[i].
RECURSIVE element_idxes_mutant(_, _, _, _)
element_idxes_mutant(c, src, indexes, i) ==
    IF i >= size(src) THEN <<>>
    ELSE LET element_count == At(src.offsets, i + 1) - At(src.offsets, i)
             element_offset == At(c.offsets, i)
         IN [j \in 1..element_count |-> element_offset + (j - 1)]
            \o element_idxes_mutant(c, src, indexes, i + 1)

RECURSIVE element_idxes(_, _, _, _)
element_idxes(c, src, indexes, i) ==
    IF i >= size(src) THEN <<>>
    ELSE LET element_count == At(src.offsets, i + 1) - At(src.offsets, i)
             element_offset == At(c.offsets, At(indexes, i))
         IN [j \in 1..element_count |-> element_offset + (j - 1)]
            \o element_idxes(c, src, indexes, i + 1)

\* Mutant of rebuild_loop: idx_begin stops at the replaced row instead of
\* behind it.
RECURSIVE rebuild_loop_mutant(_, _, _, _, _, _)
rebuild_loop_mutant(new_map_column, c, src, indexes, i, idx_begin) ==
    IF i >= size(src) THEN [col |-> new_map_column, idx_begin |-> idx_begin, calls |-> {}]
    ELSE LET count == At(indexes, i) - idx_begin
             kept == append(new_map_column, c, idx_begin, count)
             replaced == append(kept, src, i, 1)
         IN rebuild_loop_mutant(replaced, c, src, indexes, i + 1, At(indexes, i))

\* The loop of the rebuild path over the replaced rows i, i+1, ...
RECURSIVE rebuild_loop(_, _, _, _, _, _)
rebuild_loop(new_map_column, c, src, indexes, i, idx_begin) ==
    IF i >= size(src) THEN [col |-> new_map_column, idx_begin |-> idx_begin, calls |-> {}]
    ELSE LET count == At(indexes, i) - idx_begin
             kept == append(new_map_column, c, idx_begin, count)
             replaced == append(kept, src, i, 1)
             rest == rebuild_loop(replaced, c, src, indexes, i + 1, At(indexes, i) + 1)
         IN [rest EXCEPT !.calls = @ \cup append_calls(c, idx_begin, count)
                                     \cup append_calls(src, i, 1)]

\* keys_ret and values_ret are the statuses the children's update_rows
\* return on the fast path; a child that fails has changed nothing.
update_rows(c, src, indexes, keys_ret, values_ret) ==
    IF ~need_resize(c, src, indexes)
    THEN LET idxes == element_idxes(c, src, indexes, 0)
             keys_done == [c EXCEPT !.keys = child_update_rows(c.keys, src.keys, idxes)]
             calls_of(chs) == {[child |-> ch, from |-> idxes[j], size |-> 1,
                                limit |-> back(c.offsets)]
                               : ch \in chs, j \in 1..Len(idxes)}
         IN IF keys_ret # "OK"
            THEN [col |-> c, path |-> "fast", status |-> keys_ret,
                  asked |-> {"keys"}, calls |-> calls_of({"keys"}),
                  element_idxes |-> idxes, swapped |-> FALSE]
            ELSE IF values_ret # "OK"
            THEN [col |-> keys_done, path |-> "fast", status |-> values_ret,
                  asked |-> {"keys", "values"}, calls |-> calls_of({"keys", "values"}),
                  element_idxes |-> idxes, swapped |-> FALSE]
            ELSE [col |-> [keys_done EXCEPT
                              !.values = child_update_rows(c.values, src.values, idxes)],
                  path |-> "fast", status |-> "OK",
                  asked |-> {"keys", "values"}, calls |-> calls_of({"keys", "values"}),
                  element_idxes |-> idxes, swapped |-> FALSE]
    ELSE LET r == rebuild_loop(clone_empty(c), c, src, indexes, 0, 0)
             remain_count == Len(c.offsets) - r.idx_begin - 1
             new_map_column == IF remain_count > 0
                               THEN append(r.col, c, r.idx_begin, remain_count)
                               ELSE r.col
         IN [col |-> swap_column(c, new_map_column).this,
             path |-> "rebuild", status |-> "OK", asked |-> {},
             calls |-> r.calls \cup (IF remain_count > 0
                                     THEN append_calls(c, r.idx_begin, remain_count)
                                     ELSE {}),
             element_idxes |-> <<>>, swapped |-> TRUE]

\* The rows fill_default collects, from row i on.
RECURSIVE fill_default_indexes(_, _, _)
fill_default_indexes(c, filter, i) ==
    IF i >= Len(filter) THEN <<>>
    ELSE (IF At(filter, i) = 1 /\ get_map_size(c, i) > 0 THEN <<i>> ELSE <<>>)
         \o fill_default_indexes(c, filter, i + 1)

\* The status of update_rows is dropped; the record is kept here for the
\* column and the child calls it holds.
fill_default(c, filter, keys_ret, values_ret) ==
    LET indexes == fill_default_indexes(c, filter, 0)
        default_column == append_default_n(clone_empty(c), Len(indexes))
    IN update_rows(c, default_column, indexes, keys_ret, values_ret)

----------------------------------------------------------------------------
\* update_rows and assign, statement by statement. A frame holds the locals
\* of the call under way and pc, the statement it has reached; each operator
\* below takes the column and the frame and gives both after one statement.

\* update_rows up to the branch on need_resize.
update_rows_begin(c, src, indexes) ==
    IF need_resize(c, src, indexes)
    THEN [pc |-> "rebuild_kept", op |-> "update_rows", pre |-> c, src |-> src,
          indexes |-> indexes, new_map_column |-> clone_empty(c),
          i |-> 0, idx_begin |-> 0]
    ELSE [pc |-> "fast_keys", op |-> "update_rows", pre |-> c, src |-> src,
          indexes |-> indexes, element_idxes |-> element_idxes(c, src, indexes, 0)]

\* _keys->update_rows(map_column.keys(), element_idxes.data())
fast_keys(this, fr) ==
    [this |-> [this EXCEPT !.keys = child_update_rows(this.keys, fr.src.keys,
                                                      fr.element_idxes)],
     frame |-> [fr EXCEPT !.pc = "fast_values"]]

\* _values->update_rows(map_column.values(), element_idxes.data())
fast_values(this, fr) ==
    [this |-> [this EXCEPT !.values = child_update_rows(this.values, fr.src.values,
                                                        fr.element_idxes)],
     frame |-> [fr EXCEPT !.pc = "return"]]

\* The loop test, then new_map_column->append(*this, idx_begin, count).
rebuild_kept(this, fr) ==
    IF fr.i >= size(fr.src)
    THEN [this |-> this, frame |-> [fr EXCEPT !.pc = "rebuild_remain"]]
    ELSE LET count == At(fr.indexes, fr.i) - fr.idx_begin
         IN [this |-> this,
             frame |-> [fr EXCEPT !.pc = "rebuild_src",
                                  !.new_map_column = append(@, this, fr.idx_begin, count)]]

\* Mutant of rebuild_src: the replacing row is appended to the column itself.
rebuild_src_mutant(this, fr) ==
    [this |-> append(this, fr.src, fr.i, 1),
     frame |-> [fr EXCEPT !.pc = "rebuild_kept",
                          !.idx_begin = At(fr.indexes, fr.i) + 1,
                          !.i = @ + 1]]

\* new_map_column->append(src, i, 1); idx_begin = indexes[i] + 1; ++i
rebuild_src(this, fr) ==
    [this |-> this,
     frame |-> [fr EXCEPT !.pc = "rebuild_kept",
                          !.new_map_column = append(@, fr.src, fr.i, 1),
                          !.idx_begin = At(fr.indexes, fr.i) + 1,
                          !.i = @ + 1]]

\* The rows behind the last replaced one.
rebuild_remain(this, fr) ==
    LET remain_count == Len(this.offsets) - fr.idx_begin - 1
    IN [this |-> this,
        frame |-> [fr EXCEPT !.pc = "rebuild_swap",
                             !.new_map_column =
                                 IF remain_count > 0
                                 THEN append(@, this, fr.idx_begin, remain_count)
                                 ELSE @]]

\* swap_column(*new_map_column.get())
rebuild_swap(this, fr) ==
    LET r == swap_column(this, fr.new_map_column)
    IN [this |-> r.this,
        frame |-> [fr EXCEPT !.pc = "return", !.new_map_column = r.rhs]]

\* One statement of update_rows.
update_rows_step(this, fr) ==
    CASE fr.pc = "fast_keys" -> fast_keys(this, fr)
      [] fr.pc = "fast_values" -> fast_values(this, fr)
      [] fr.pc = "rebuild_kept" -> rebuild_kept(this, fr)
      [] fr.pc = "rebuild_src" -> rebuild_src(this, fr)
      [] fr.pc = "rebuild_remain" -> rebuild_remain(this, fr)
      [] fr.pc = "rebuild_swap" -> rebuild_swap(this, fr)

\* assign up to the call of append_value_multiple_times.
assign_begin(c, n, idx) ==
    [pc |-> "assign_append", op |-> "assign", pre |-> c, n |-> n, idx |-> idx,
     desc |-> clone_empty(c), datum |-> get(c, idx), c |-> 0]

\* The loop of append_value_multiple_times(&datum, n): one append_datum.
assign_append(this, fr) ==
    IF fr.c >= fr.n
    THEN [this |-> this, frame |-> [fr EXCEPT !.pc = "assign_swap"]]
    ELSE [this |-> this,
          frame |-> [fr EXCEPT !.desc = append_datum(@, fr.datum), !.c = @ + 1]]

\* swap_column(*desc)
assign_swap(this, fr) ==
    LET r == swap_column(this, fr.desc)
    IN [this |-> r.this, frame |-> [fr EXCEPT !.pc = "assign_reset", !.desc = r.rhs]]

\* desc->reset_column()
assign_reset(this, fr) ==
    [this |-> this, frame |-> [fr EXCEPT !.pc = "return", !.desc = reset_column(@)]]

\* One statement of assign.
assign_step(this, fr) ==
    CASE fr.pc = "assign_append" -> assign_append(this, fr)
      [] fr.pc = "assign_swap" -> assign_swap(this, fr)
      [] fr.pc = "assign_reset" -> assign_reset(this, fr)

----------------------------------------------------------------------------
\* Serialization.

\* memcpy of a uint32_t (little-endian), and back.
EncodeU32(n) ==
    <<n % 256, (n \div 256) % 256, (n \div 65536) % 256, (n \div 16777216) % 256>>

DecodeU32(buf, pos) ==
    buf[pos + 1] + 256 * buf[pos + 2] + 65536 * buf[pos + 3] + 16777216 * buf[pos + 4]

\* The loop of serialize over the elements i, i+1, ... of a row: the bytes
\* written behind pos + ser_size and the sizes the children returned.
RECURSIVE serialize_elems(_, _, _, _)
serialize_elems(c, offset, map_size, i) ==
    IF i >= map_size THEN [bytes |-> <<>>, ser_size |-> 0]
    ELSE LET k == At(c.keys, offset + i)
             v == At(c.values, offset + i)
             rest == serialize_elems(c, offset, map_size, i + 1)
         IN [bytes |-> child_serialize(k) \o child_serialize(v) \o rest.bytes,
             ser_size |-> Len(child_serialize(k)) + Len(child_serialize(v)) + rest.ser_size]

serialize(c, idx) ==
    LET offset == At(c.offsets, idx)
        map_size == At(c.offsets, idx + 1) - offset
        elems == serialize_elems(c, offset, map_size, 0)
    IN [bytes |-> EncodeU32(map_size) \o elems.bytes,
        ret |-> 4 + elems.ser_size,
        calls |-> {[child |-> ch, from |-> offset + i, size |-> 1, limit |-> back(c.offsets)]
                   : ch \in {"keys", "values"}, i \in 0..(map_size - 1)}]

serialize_default == [bytes |-> EncodeU32(0), ret |-> 4]

RECURSIVE serialize_size_elems(_, _, _, _)
serialize_size_elems(c, offset, map_size, i) ==
    IF i >= map_size THEN 0
    ELSE child_serialize_size(At(c.keys, offset + i))
         + child_serialize_size(At(c.values, offset + i))
         + serialize_size_elems(c, offset, map_size, i + 1)

\* Mutant of serialize_size: the 4 bytes of the cardinality are not counted.
serialize_size_mutant(c, idx) ==
    LET offset == At(c.offsets, idx)
        map_size == At(c.offsets, idx + 1) - offset
    IN serialize_size_elems(c, offset, map_size, 0)

serialize_size(c, idx) ==
    LET offset == At(c.offsets, idx)
        map_size == At(c.offsets, idx + 1) - offset
    IN 4 + serialize_size_elems(c, offset, map_size, 0)

\* Mutant of deserialize_elems: the value is read before the key.
RECURSIVE deserialize_elems_mutant(_, _, _, _)
deserialize_elems_mutant(ks, vs, buf, todo) ==
    IF todo.left = 0 THEN [keys |-> ks, values |-> vs, pos |-> todo.pos]
    ELSE LET v == child_deserialize(buf, todo.pos)
             k == child_deserialize(buf, v.pos)
         IN deserialize_elems_mutant(Append(ks, k.elem), Append(vs, v.elem), buf,
                                     [left |-> todo.left - 1, pos |-> k.pos])

\* The loop of deserialize_and_append over the elements still to read.
RECURSIVE deserialize_elems(_, _, _, _)
deserialize_elems(ks, vs, buf, todo) ==
    IF todo.left = 0 THEN [keys |-> ks, values |-> vs, pos |-> todo.pos]
    ELSE LET k == child_deserialize(buf, todo.pos)
             v == child_deserialize(buf, k.pos)
         IN deserialize_elems(Append(ks, k.elem), Append(vs, v.elem), buf,
                              [left |-> todo.left - 1, pos |-> v.pos])

deserialize_and_append(c, buf, pos) ==
    LET map_size == DecodeU32(buf, pos)
        r == deserialize_elems(c.keys, c.values, buf, [left |-> map_size, pos |-> pos + 4])
    IN [col |-> [offsets |-> Append(c.offsets, back(c.offsets) + map_size),
                 keys |-> r.keys, values |-> r.values],
        pos |-> r.pos]

\* The loop of max_one_element_serialize_size over the rows i, ..., n - 1.
RECURSIVE max_size_loop(_, _, _, _)
max_size_loop(c, max_size, i, n) ==
    IF i >= n THEN max_size
    ELSE LET sz == serialize_size(c, i)
         IN max_size_loop(c, IF max_size >= sz THEN max_size ELSE sz, i + 1, n)

max_one_element_serialize_size(c) == max_size_loop(c, 0, 0, size(c))

\* memcpy of bytes into the buffer dst at position pos.
WriteAt(dst, pos, bytes) ==
    [j \in 1..Len(dst) |->
        IF j - 1 >= pos /\ j - 1 < pos + Len(bytes) THEN bytes[j - pos] ELSE dst[j]]

\* Mutant of serialize_batch_loop: every slot gets row 0.
RECURSIVE serialize_batch_loop_mutant(_, _, _, _, _)
serialize_batch_loop_mutant(c, st, i, chunk_size, max_one_row_size) ==
    IF i >= chunk_size THEN st
    ELSE LET pos == i * max_one_row_size + At(st.slice_sizes, i)
             r == serialize(c, 0)
         IN serialize_batch_loop_mutant(c,
                [dst |-> WriteAt(st.dst, pos, r.bytes),
                 slice_sizes |-> [st.slice_sizes EXCEPT ![i + 1] = @ + r.ret],
                 spans |-> Append(st.spans, [from |-> pos, to |-> pos + Len(r.bytes)])],
                i + 1, chunk_size, max_one_row_size)

\* The loop of serialize_batch; st = [dst, slice_sizes, spans], spans being
\* the byte range each serialize call wrote.
RECURSIVE serialize_batch_loop(_, _, _, _, _)
serialize_batch_loop(c, st, i, chunk_size, max_one_row_size) ==
    IF i >= chunk_size THEN st
    ELSE LET pos == i * max_one_row_size + At(st.slice_sizes, i)
             r == serialize(c, i)
         IN serialize_batch_loop(c,
                [dst |-> WriteAt(st.dst, pos, r.bytes),
                 slice_sizes |-> [st.slice_sizes EXCEPT ![i + 1] = @ + r.ret],
                 spans |-> Append(st.spans, [from |-> pos, to |-> pos + Len(r.bytes)])],
                i + 1, chunk_size, max_one_row_size)

serialize_batch(c, dst, slice_sizes, chunk_size, max_one_row_size) ==
    serialize_batch_loop(c, [dst |-> dst, slice_sizes |-> slice_sizes, spans |-> <<>>],
                         0, chunk_size, max_one_row_size)

\* The loop of deserialize_and_append_batch; srcs[i].data is a position in
\* the buffer buf.
RECURSIVE deserialize_batch_loop(_, _, _, _, _)
deserialize_batch_loop(c, buf, srcs, i, chunk_size) ==
    IF i >= chunk_size THEN [col |-> c, srcs |-> srcs]
    ELSE LET r == deserialize_and_append(c, buf, At(srcs, i))
         IN deserialize_batch_loop(r.col, buf, [srcs EXCEPT ![i + 1] = r.pos],
                                   i + 1, chunk_size)

deserialize_and_append_batch(c, buf, srcs, chunk_size) ==
    deserialize_batch_loop(c, buf, srcs, 0, chunk_size)

----------------------------------------------------------------------------
\* Checksum, comparison and raw access.

\* a ^ b on non-negative integers.
RECURSIVE Xor(_, _)
Xor(a, b) ==
    IF a = 0 THEN b
    ELSE IF b = 0 THEN a
    ELSE (((a % 2) + (b % 2)) % 2) + 2 * Xor(a \div 2, b \div 2)

\* A child's checksum of its elements from, ..., to - 1.
RECURSIVE child_xor_checksum(_, _, _)
child_xor_checksum(col, from, to) ==
    IF from >= to THEN 0
    ELSE Xor(At(col, from), child_xor_checksum(col, from + 1, to))

\* The loop of xor_checksum over the rows idx, ..., to - 1.
RECURSIVE xor_sizes(_, _, _, _)
xor_sizes(c, xor_checksum_acc, idx, to) ==
    IF idx >= to THEN xor_checksum_acc
    ELSE LET array_size == At(c.offsets, idx + 1) - At(c.offsets, idx)
         IN xor_sizes(c, Xor(xor_checksum_acc, array_size), idx + 1, to)

\* Mutant of xor_checksum: the first row's cardinality is left out.
xor_checksum_mutant(c, from, to) ==
    LET acc == xor_sizes(c, 0, from + 1, to)
        element_from == At(c.offsets, from)
        element_to == At(c.offsets, to)
    IN Xor(Xor(acc, child_xor_checksum(c.keys, element_from, element_to)),
           child_xor_checksum(c.values, element_from, element_to))

xor_checksum(c, from, to) ==
    LET acc == xor_sizes(c, 0, from, to)
        element_from == At(c.offsets, from)
        element_to == At(c.offsets, to)
    IN Xor(Xor(acc, child_xor_checksum(c.keys, element_from, element_to)),
           child_xor_checksum(c.values, element_from, element_to))

\* Mutant of compare_at: a row compared with itself is equal.
compare_at_mutant(c, left, right, right_column, nan_direction_hint) ==
    IF right_column = c /\ left = right THEN 0 ELSE -1

compare_at(c, left, right, right_column, nan_direction_hint) == -1

\* raw_data and mutable_raw_data: DCHECK(false) aborts where DCHECK is
\* compiled in; where it is compiled out the call returns nullptr.
raw_data(c, dcheck_on) ==
    IF dcheck_on THEN [outcome |-> "abort", col |-> c]
    ELSE [outcome |-> "nullptr", col |-> c]

mutable_raw_data(c, dcheck_on) ==
    IF dcheck_on THEN [outcome |-> "abort", col |-> c]
    ELSE [outcome |-> "nullptr", col |-> c]

----------------------------------------------------------------------------
\* filter_range. The loops work on st = [offsets, element_filter,
\* check_offset, result_offset]; a 32-bit mask is the function of its bits
\* 0..31.

\* memset(element_filter.data() + start, 1, n)
memset1(element_filter, start, n) ==
    SubSeq(element_filter, 1, start) \o [j \in 1..n |-> 1]
        \o SubSeq(element_filter, start + n + 1, Len(element_filter))

\* One lane of _mm256_cmpgt_epi8(f, all0): the byte is compared as a signed
\* 8-bit integer.
cmpgt_epi8(b) == (IF b >= 128 THEN b - 256 ELSE b) > 0

\* _mm256_movemask_epi8 of the comparison of the bytes at check_offset.
movemask(filter, check_offset) ==
    [i \in 0..31 |-> IF i < kBatchSize /\ cmpgt_epi8(At(filter, check_offset + i))
                     THEN 1 ELSE 0]

mask_zero == [i \in 0..31 |-> 0]

shift_right(mask, k) == [i \in 0..31 |-> IF i + k <= 31 THEN mask[i + k] ELSE 0]

CountTrailingZerosNonZero32(mask) == SetMin({i \in 0..31 : mask[i] = 1})

CountTrailingZeros32(mask) ==
    IF mask = mask_zero THEN 32 ELSE CountTrailingZerosNonZero32(mask)

\* Mutant of batch_all_hit: the moved offsets are not lowered by delta.
batch_all_hit_mutant(st) ==
    LET offs == st.offsets
        check_offset == st.check_offset
        result_offset == st.result_offset
        element_size == At(offs, check_offset + kBatchSize) - At(offs, check_offset)
        moved == SubSeq(offs, 1, result_offset + 1)
                 \o [k \in 1..kBatchSize |-> At(offs, check_offset + k)]
                 \o SubSeq(offs, result_offset + kBatchSize + 2, Len(offs))
    IN [st EXCEPT !.element_filter = memset1(@, At(offs, check_offset), element_size),
                  !.offsets = IF result_offset # check_offset THEN moved ELSE offs,
                  !.result_offset = result_offset + kBatchSize]

\* "all hit, copy all"
batch_all_hit(st) ==
    LET offs == st.offsets
        check_offset == st.check_offset
        result_offset == st.result_offset
        element_size == At(offs, check_offset + kBatchSize) - At(offs, check_offset)
        delta == At(offs, check_offset) - At(offs, result_offset)
        moved == SubSeq(offs, 1, result_offset + 1)
                 \o [k \in 1..kBatchSize |-> At(offs, check_offset + k) - delta]
                 \o SubSeq(offs, result_offset + kBatchSize + 2, Len(offs))
    IN [st EXCEPT !.element_filter = memset1(@, At(offs, check_offset), element_size),
                  !.offsets = IF result_offset # check_offset THEN moved ELSE offs,
                  !.result_offset = result_offset + kBatchSize]

\* The inner loop of a mixed batch, from lane i on.
RECURSIVE batch_mixed_loop(_, _, _, _)
batch_mixed_loop(st, mask, zero_count, i) ==
    IF i >= kBatchSize THEN st
    ELSE LET offs == st.offsets
             shifted == IF zero_count < 31 THEN shift_right(mask, zero_count + 1)
                        ELSE mask_zero
             array_size == At(offs, st.check_offset + i + 1) - At(offs, st.check_offset + i)
             next_zero_count == CountTrailingZeros32(shifted)
         IN batch_mixed_loop(
                [st EXCEPT !.element_filter =
                               memset1(@, At(offs, st.check_offset + i), array_size),
                           !.offsets[st.result_offset + 2] =
                               At(offs, st.result_offset) + array_size,
                           !.result_offset = @ + 1],
                shifted, next_zero_count, i + (next_zero_count + 1))

batch_mixed(st, mask) ==
    LET zero_count == CountTrailingZerosNonZero32(mask)
    IN batch_mixed_loop(st, mask, zero_count, zero_count)

\* The AVX2 loop: while (check_offset + kBatchSize < to).
RECURSIVE batch_loop(_, _, _)
batch_loop(st, filter, to) ==
    IF ~(st.check_offset + kBatchSize < to) THEN st
    ELSE LET mask == movemask(filter, st.check_offset)
             after == IF mask = mask_zero THEN st
                      ELSE IF \A i \in 0..31 : mask[i] = 1 THEN batch_all_hit(st)
                      ELSE batch_mixed(st, mask)
         IN batch_loop([after EXCEPT !.check_offset = @ + kBatchSize], filter, to)

\* The body of the scalar loop for row i.
scalar_row(st, filter, i) ==
    IF At(filter, i) # 0
    THEN LET offs == st.offsets
             array_size == At(offs, i + 1) - At(offs, i)
         IN [st EXCEPT !.element_filter = memset1(@, At(offs, i), array_size),
                       !.offsets[st.result_offset + 2] =
                           At(offs, st.result_offset) + array_size,
                       !.result_offset = @ + 1]
    ELSE st

\* The rows i, ..., to - 1 in turn: the first half of them, then the rest.
\* The state behind the first half is worked out before the rest is begun;
\* result_offset never runs ahead of the row that is read.
RECURSIVE scalar_rows(_, _, _, _)
scalar_rows(st, filter, i, to) ==
    IF i >= to THEN st
    ELSE IF to = i + 1 THEN scalar_row(st, filter, i)
    ELSE LET mid == (i + to) \div 2
             first == scalar_rows(st, filter, i, mid)
         IN IF first.result_offset <= mid
            THEN scalar_rows(first, filter, mid, to)
            ELSE first

\* Mutant of scalar_loop: the loop stops one row early.
scalar_loop_mutant(st, filter, i, to) == scalar_rows(st, filter, i, to - 1)

\* The scalar loop: for (i = check_offset; i < to; ++i).
scalar_loop(st, filter, i, to) == scalar_rows(st, filter, i, to)

\* filter_range(filter, from, to); avx2 tells whether the build defines
\* __AVX2__.
filter_range(c, filter, from, to, avx2) ==
    LET elements_start == At(c.offsets, from)
        elements_end == At(c.offsets, to)
        st0 == [offsets |-> c.offsets,
                element_filter |-> [j \in 1..elements_end |-> 0],
                check_offset |-> from,
                result_offset |-> from]
        st1 == IF avx2 THEN batch_loop(st0, filter, to) ELSE st0
        st2 == scalar_loop(st1, filter, st1.check_offset, to)
        k == child_filter_range(c.keys, st2.element_filter, elements_start, elements_end)
        v == child_filter_range(c.values, st2.element_filter, elements_start, elements_end)
        filtered == [offsets |-> st2.offsets, keys |-> k.col, values |-> v.col]
    IN [col |-> resize(filtered, st2.result_offset),
        ret |-> st2.result_offset,
        element_filter |-> st2.element_filter,
        dcheck |-> At(st2.offsets, st2.result_offset) = k.ret
                   /\ At(st2.offsets, st2.result_offset) = v.ret,
        calls |-> {[child |-> ch, from |-> elements_start,
                    size |-> elements_end - elements_start, limit |-> back(c.offsets)]
                   : ch \in {"keys", "values"}}]

----------------------------------------------------------------------------
\* Hashes. The mixing functions of HashUtil fold one datum into a running
\* hash; here they work on small numbers, and differ from each other.

\* HashUtil::fnv_hash(&x, sizeof(x), hash)
fnv_hash(x, hash) == (hash * 31 + x + 7) % 251

\* HashUtil::zlib_crc_hash(&x, sizeof(x), hash)
zlib_crc_hash(x, hash) == (hash * 17 + 3 * x + 1) % 241

\* fnv_hash_at / crc32_hash_at of a child: element e is folded into hash.
child_fnv_hash_at(hash, e) == fnv_hash(e, hash)

child_crc32_hash_at(hash, e) == zlib_crc_hash(e, hash)

\* Seeds a caller hands in.
HashSeeds == {0, 5}

\* The element loop of fnv_hash_at, from element i of the row on.
RECURSIVE fnv_hash_elems(_, _, _, _, _)
fnv_hash_elems(c, hash, offset, map_size, i) ==
    IF i >= map_size THEN hash
    ELSE LET ele_offset == offset + i
             k == child_fnv_hash_at(hash, At(c.keys, ele_offset))
             v == child_fnv_hash_at(k, At(c.values, ele_offset))
         IN fnv_hash_elems(c, v, offset, map_size, i + 1)

\* Mutant of fnv_hash_at: the row's start offset is hashed instead of its
\* cardinality.
fnv_hash_at_mutant(c, hash, idx) ==
    LET offset == At(c.offsets, idx)
        map_size == At(c.offsets, idx + 1) - offset
    IN fnv_hash_elems(c, fnv_hash(offset, hash), offset, map_size, 0)

fnv_hash_at(c, hash, idx) ==
    LET offset == At(c.offsets, idx)
        map_size == At(c.offsets, idx + 1) - offset
    IN fnv_hash_elems(c, fnv_hash(map_size, hash), offset, map_size, 0)

RECURSIVE crc32_hash_elems(_, _, _, _, _)
crc32_hash_elems(c, hash, offset, map_size, i) ==
    IF i >= map_size THEN hash
    ELSE LET ele_offset == offset + i
             k == child_crc32_hash_at(hash, At(c.keys, ele_offset))
             v == child_crc32_hash_at(k, At(c.values, ele_offset))
         IN crc32_hash_elems(c, v, offset, map_size, i + 1)

crc32_hash_at(c, hash, idx) ==
    LET offset == At(c.offsets, idx)
        map_size == At(c.offsets, idx + 1) - offset
    IN crc32_hash_elems(c, zlib_crc_hash(map_size, hash), offset, map_size, 0)

----------------------------------------------------------------------------
\* Sizes: the element ranges handed to the children.

byte_size_calls(c, from, sz) ==
    {[child |-> ch, from |-> At(c.offsets, from),
      size |-> At(c.offsets, from + sz) - At(c.offsets, from),
      limit |-> back(c.offsets)] : ch \in {"keys", "values"}}

byte_size_idx_calls(c, idx) ==
    {[child |-> ch, from |-> At(c.offsets, idx), size |-> At(c.offsets, idx + 1),
      limit |-> back(c.offsets)] : ch \in {"keys", "values"}}

element_memory_usage_calls(c, from, sz) ==
    {[child |-> ch, from |-> At(c.offsets, from), size |-> At(c.offsets, from + sz),
      limit |-> back(c.offsets)] : ch \in {"keys", "values"}}

\* Statuses a child's operation may return.
ChildStatuses == {"OK", "NotSupported", "MemLimitExceeded"}

\* What a child's upgrade_if_overflow or downgrade may come to: it fails, it
\* succeeds with nothing to change, or it succeeds and hands back a column of
\* the other representation.
ChildOutcomes ==
    {[status |-> st, change |-> FALSE] : st \in ChildStatuses}
        \cup {[status |-> "OK", change |-> TRUE]}

\* upgrade_helper_func(&child): the child is asked to upgrade; a column it
\* hands back replaces the child in place.
upgrade_helper_func(width, out) ==
    [status |-> out.status,
     width |-> IF out.status = "OK" /\ out.change THEN "wide" ELSE width]

\* downgrade_helper_func(&child), likewise.
downgrade_helper_func(width, out) ==
    [status |-> out.status,
     width |-> IF out.status = "OK" /\ out.change THEN "narrow" ELSE width]

\* Mutant of upgrade_if_overflow: a failure of the keys child is dropped and
\* the values child is asked all the same.
upgrade_if_overflow_mutant(c, w, keys_out, values_out) ==
    IF Len(c.offsets) > MAX_CAPACITY_LIMIT
    THEN [status |-> "InternalError", asked |-> {}, widths |-> w]
    ELSE LET k == upgrade_helper_func(w.keys, keys_out)
             v == upgrade_helper_func(w.values, values_out)
         IN [status |-> v.status, asked |-> {"keys", "values"},
             widths |-> [keys |-> k.width, values |-> v.width]]

\* upgrade_if_overflow: the status it returns, the children it asked and
\* the representation the children have afterwards. w holds the children's
\* representation before the call, keys_out and values_out what their own
\* upgrade comes to.
upgrade_if_overflow(c, w, keys_out, values_out) ==
    IF Len(c.offsets) > MAX_CAPACITY_LIMIT
    THEN [status |-> "InternalError", asked |-> {}, widths |-> w]
    ELSE LET k == upgrade_helper_func(w.keys, keys_out)
         IN IF k.status # "OK"
            THEN [status |-> k.status, asked |-> {"keys"},
                  widths |-> [w EXCEPT !.keys = k.width]]
            ELSE LET v == upgrade_helper_func(w.values, values_out)
                 IN [status |-> v.status, asked |-> {"keys", "values"},
                     widths |-> [keys |-> k.width, values |-> v.width]]

downgrade(c, w, keys_out, values_out) ==
    LET k == downgrade_helper_func(w.keys, keys_out)
    IN IF k.status # "OK"
       THEN [status |-> k.status, asked |-> {"keys"},
             widths |-> [w EXCEPT !.keys = k.width]]
       ELSE LET v == downgrade_helper_func(w.values, values_out)
            IN [status |-> v.status, asked |-> {"keys", "values"},
                widths |-> [keys |-> k.width, values |-> v.width]]

----------------------------------------------------------------------------
\* Columns handed in as the source (or the other side) of an operation.
SrcColumns ==
    { MapColumn(<<>>, <<>>, <<>>),
      MapColumn(<<>>, <<>>, <<0, 0>>),
      MapColumn(<<1>>, <<1>>, <<0, 1>>),
      MapColumn(<<2, 1>>, <<1, 2>>, <<0, 2>>),
      MapColumn(<<Null, 1>>, <<2, 1>>, <<0, 2, 2>>),
      MapColumn(<<1, 1>>, <<1, 2>>, <<0, 1, 2>>),
      MapColumn(<<2, 2>>, <<1, 2>>, <<0, 0, 2>>) }

DatumMaps == UNION {[S -> ValDom] : S \in SUBSET (KeyDom \ {Null})}

Fits(c) == size(c) <= MaxRows /\ back(c.offsets) <= MaxElems

Install(c) ==
    /\ offsets' = c.offsets
    /\ keys' = c.keys
    /\ values' = c.values

NoCalls == {}

\* The status a child returned to the operation, when the operation asked it.
Answer(asked, child, ret) == IF child \in asked THEN ret ELSE "NotAsked"

\* No update_rows or assign call is under way.
NoFrame == [pc |-> "idle"]

\* No object besides the column has been constructed.
NoObjects == [kind |-> "none"]

\* The caller invokes the next operation once it has taken the result of
\* the last one.
Idle == frame.pc = "idle" /\ last.op \in {"construct", "none"}

Init ==
    /\ offsets = MapColumn(<<>>, <<>>, <<>>).offsets
    /\ keys = <<>>
    /\ values = <<>>
    /\ widths = [keys |-> "narrow", values |-> "narrow"]
    /\ frame = NoFrame
    /\ heap = NoObjects
    /\ last = [op |-> "construct"]

AppendDatum ==
    /\ Idle
    /\ UNCHANGED <<widths, frame, heap>>
    /\ \E map \in DatumMaps :
           LET r == append_datum(Col, map)
           IN /\ Fits(r)
              /\ Install(r)
              /\ last' = [op |-> "append_datum", pre |-> Col, map |-> map, calls |-> NoCalls]

AppendRows ==
    /\ Idle
    /\ UNCHANGED <<widths, frame, heap>>
    /\ \E src \in SrcColumns :
           \E offset \in 0..size(src) :
               \E count \in 0..(size(src) - offset) :
                   LET r == append(Col, src, offset, count)
                   IN /\ Fits(r)
                      /\ Install(r)
                      /\ last' = [op |-> "append", pre |-> Col, src |-> src,
                                  offset |-> offset, count |-> count,
                                  calls |-> append_calls(src, offset, count)]

Resize ==
    /\ Idle
    /\ UNCHANGED <<widths, frame, heap>>
    /\ \E n \in 0..MaxRows :
           /\ Install(resize(Col, n))
           /\ last' = [op |-> "resize", pre |-> Col, n |-> n, calls |-> NoCalls]

Assign ==
    /\ Idle
    /\ UNCHANGED <<widths, frame, heap>>
    /\ \E n \in 0..MaxRows :
           \E idx \in 0..(size(Col) - 1) :
               LET r == assign(Col, n, idx)
               IN /\ Fits(r)
                  /\ Install(r)
                  /\ last' = [op |-> "assign", pre |-> Col, n |-> n, idx |-> idx,
                              calls |-> NoCalls]

AppendSelective ==
    /\ Idle
    /\ UNCHANGED <<widths, frame, heap>>
    /\ \E src \in SrcColumns :
           \E indexes \in SeqsUpTo(0..(size(src) - 1), MaxSelect) :
               \E from \in 0..Len(indexes) :
                   LET sz == Len(indexes) - from
                       r == append_selective(Col, src, indexes, from, sz)
                   IN /\ Fits(r)
                      /\ Install(r)
                      /\ last' = [op |-> "append_selective", pre |-> Col, src |-> src,
                                  indexes |-> indexes, from |-> from, size |-> sz,
                                  calls |-> UNION {append_calls(src, At(indexes, from + i), 1)
                                                   : i \in 0..(sz - 1)}]

AppendValueMultipleTimes ==
    /\ Idle
    /\ UNCHANGED <<widths, frame, heap>>
    /\ \E src \in SrcColumns :
           \E index \in 0..(size(src) - 1) :
               \E sz \in 0..MaxRepeat :
                   LET r == append_value_multiple_times(Col, src, index, sz)
                   IN /\ Fits(r)
                      /\ Install(r)
                      /\ last' = [op |-> "append_value_multiple_times", pre |-> Col,
                                  src |-> src, index |-> index, size |-> sz,
                                  calls |-> IF sz = 0 THEN NoCalls
                                            ELSE append_calls(src, index, 1)]

AppendNulls ==
    /\ Idle
    /\ UNCHANGED <<widths, frame, heap>>
    /\ \E count \in 0..MaxRepeat :
           LET r == append_nulls(Col, count)
           IN /\ Fits(r)
              /\ Install(r)
              /\ last' = [op |-> "append_nulls", pre |-> Col, count |-> count, ret |-> TRUE,
                          calls |-> NoCalls]

AppendDefault ==
    /\ Idle
    /\ UNCHANGED <<widths, frame, heap>>
    /\ LET r == append_default(Col)
       IN /\ Fits(r)
          /\ Install(r)
          /\ last' = [op |-> "append_default", pre |-> Col, count |-> 1, calls |-> NoCalls]

AppendDefaultN ==
    /\ Idle
    /\ UNCHANGED <<widths, frame, heap>>
    /\ \E count \in 0..MaxRepeat :
           LET r == append_default_n(Col, count)
           IN /\ Fits(r)
              /\ Install(r)
              /\ last' = [op |-> "append_default_n", pre |-> Col, count |-> count,
                          calls |-> NoCalls]

FillDefault ==
    /\ Idle
    /\ UNCHANGED <<widths, frame, heap>>
    /\ \E m \in 0..size(Col) :
           \E filter \in SeqsOfLen(FilterDom, m) :
               LET r == fill_default(Col, filter, "OK", "OK")
               IN /\ Install(r.col)
                  /\ last' = [op |-> "fill_default", pre |-> Col, filter |-> filter,
                              calls |-> r.calls]

\* The strictly increasing index lists of length n over the rows 0..rows-1.
SortedIndexes(rows, n) ==
    {ix \in SeqsOfLen(0..(rows - 1), n) : \A i \in 1..(n - 1) : ix[i] < ix[i + 1]}

UpdateRows ==
    /\ Idle
    /\ UNCHANGED <<widths, frame, heap>>
    /\ \E src \in SrcColumns :
           /\ size(src) <= size(Col)
           /\ \E indexes \in SortedIndexes(size(Col), size(src)) :
                  LET r == update_rows(Col, src, indexes, "OK", "OK")
                  IN /\ Fits(r.col)
                     /\ Install(r.col)
                     /\ last' = [op |-> "update_rows", pre |-> Col, src |-> src,
                                 indexes |-> indexes, path |-> r.path, status |-> r.status,
                                 element_idxes |-> r.element_idxes, swapped |-> r.swapped,
                                 calls |-> r.calls]

FilterRangeWith(filter, from, avx2) ==
    LET r == filter_range(Col, filter, from, size(Col), avx2)
    IN /\ Install(r.col)
       /\ last' = [op |-> "filter_range", pre |-> Col, filter |-> filter,
                   from |-> from, to |-> size(Col), ret |-> r.ret,
                   element_filter |-> r.element_filter, avx2 |-> avx2,
                   calls |-> r.calls]

FilterRange ==
    /\ Idle
    /\ UNCHANGED <<widths, frame, heap>>
    /\ \E filter \in SeqsOfLen(FilterDom, size(Col)) :
           \E from \in 0..size(Col) :
               \E avx2 \in BOOLEAN :
                   FilterRangeWith(filter, from, avx2)

Serialize ==
    /\ Idle
    /\ UNCHANGED <<widths, frame, heap>>
    /\ \E idx \in 0..(size(Col) - 1) :
           LET r == serialize(Col, idx)
           IN /\ UNCHANGED <<offsets, keys, values>>
              /\ last' = [op |-> "serialize", pre |-> Col, idx |-> idx, bytes |-> r.bytes,
                          ret |-> r.ret, calls |-> r.calls]

SerializeDefault ==
    /\ Idle
    /\ UNCHANGED <<widths, frame, heap>>
    /\ /\ UNCHANGED <<offsets, keys, values>>
       /\ last' = [op |-> "serialize_default", pre |-> Col, bytes |-> serialize_default.bytes,
                   ret |-> serialize_default.ret, calls |-> NoCalls]

\* deserialize_and_append of a buffer that serialize wrote for row idx of
\* src (a source column, or this column itself).
DeserializeAndAppend ==
    /\ Idle
    /\ UNCHANGED <<widths, frame, heap>>
    /\ \E src \in SrcColumns \cup {Col} :
           \E idx \in 0..(size(src) - 1) :
               LET buf == serialize(src, idx).bytes
                   r == deserialize_and_append(Col, buf, 0)
               IN /\ Fits(r.col)
                  /\ Install(r.col)
                  /\ last' = [op |-> "deserialize_and_append", pre |-> Col, src |-> src,
                              idx |-> idx, buf |-> buf, ret |-> r.pos, calls |-> NoCalls]

ByteSize ==
    /\ Idle
    /\ UNCHANGED <<widths, frame, heap>>
    /\ \E from \in 0..size(Col) :
           \E sz \in 0..(size(Col) - from) :
               /\ UNCHANGED <<offsets, keys, values>>
               /\ last' = [op |-> "byte_size", pre |-> Col, from |-> from, size |-> sz,
                           calls |-> byte_size_calls(Col, from, sz)]

ByteSizeIdx ==
    /\ Idle
    /\ UNCHANGED <<widths, frame, heap>>
    /\ \E idx \in 0..(size(Col) - 1) :
           /\ UNCHANGED <<offsets, keys, values>>
           /\ last' = [op |-> "byte_size_idx", pre |-> Col, idx |-> idx,
                       calls |-> byte_size_idx_calls(Col, idx)]

ElementMemoryUsage ==
    /\ Idle
    /\ UNCHANGED <<widths, frame, heap>>
    /\ \E from \in 0..size(Col) :
           \E sz \in 0..(size(Col) - from) :
               /\ UNCHANGED <<offsets, keys, values>>
               /\ last' = [op |-> "element_memory_usage", pre |-> Col, from |-> from,
                           size |-> sz, calls |-> element_memory_usage_calls(Col, from, sz)]

SwapColumn ==
    /\ Idle
    /\ UNCHANGED <<widths, frame, heap>>
    /\ \E rhs \in SrcColumns :
           LET r == swap_column(Col, rhs)
           IN /\ Install(r.this)
              /\ last' = [op |-> "swap_column", pre |-> Col, rhs |-> r.rhs, calls |-> NoCalls]

ResetColumn ==
    /\ Idle
    /\ UNCHANGED <<widths, frame, heap>>
    /\ /\ Install(reset_column(Col))
       /\ last' = [op |-> "reset_column", pre |-> Col, calls |-> NoCalls]

Get ==
    /\ Idle
    /\ UNCHANGED <<widths, frame, heap>>
    /\ \E idx \in 0..(size(Col) - 1) :
           /\ UNCHANGED <<offsets, keys, values>>
           /\ last' = [op |-> "get", pre |-> Col, idx |-> idx, res |-> get(Col, idx),
                       calls |-> NoCalls]

SetNull ==
    /\ Idle
    /\ UNCHANGED <<widths, frame, heap>>
    /\ \E idx \in 0..(size(Col) - 1) :
           LET r == set_null(Col, idx)
           IN /\ Install(r.col)
              /\ last' = [op |-> "set_null", pre |-> Col, idx |-> idx, ret |-> r.ret,
                          calls |-> NoCalls]

CloneEmpty ==
    /\ Idle
    /\ UNCHANGED <<widths, frame, heap>>
    /\ UNCHANGED <<offsets, keys, values>>
    /\ last' = [op |-> "clone_empty", pre |-> Col, res |-> clone_empty(Col),
                calls |-> NoCalls]

FnvHashAt ==
    /\ Idle
    /\ UNCHANGED <<widths, frame, heap>>
    /\ \E idx \in 0..(size(Col) - 1) :
           \E seed \in HashSeeds :
               /\ UNCHANGED <<offsets, keys, values>>
               /\ last' = [op |-> "fnv_hash_at", pre |-> Col, idx |-> idx, seed |-> seed,
                           hash |-> fnv_hash_at(Col, seed, idx), calls |-> NoCalls]

Crc32HashAt ==
    /\ Idle
    /\ UNCHANGED <<widths, frame, heap>>
    /\ \E idx \in 0..(size(Col) - 1) :
           \E seed \in HashSeeds :
               /\ UNCHANGED <<offsets, keys, values>>
               /\ last' = [op |-> "crc32_hash_at", pre |-> Col, idx |-> idx, seed |-> seed,
                           hash |-> crc32_hash_at(Col, seed, idx), calls |-> NoCalls]

UpgradeIfOverflow ==
    /\ Idle
    /\ \E keys_out \in ChildOutcomes :
           \E values_out \in ChildOutcomes :
               LET r == upgrade_if_overflow(Col, widths, keys_out, values_out)
               IN /\ UNCHANGED <<offsets, keys, values, frame, heap>>
                  /\ widths' = r.widths
                  /\ last' = [op |-> "upgrade_if_overflow", pre |-> Col,
                              pre_widths |-> widths,
                              status |-> r.status, asked |-> r.asked,
                              keys_ret |-> Answer(r.asked, "keys", keys_out.status),
                              values_ret |-> Answer(r.asked, "values", values_out.status),
                              calls |-> NoCalls]

Downgrade ==
    /\ Idle
    /\ \E keys_out \in ChildOutcomes :
           \E values_out \in ChildOutcomes :
               LET r == downgrade(Col, widths, keys_out, values_out)
               IN /\ UNCHANGED <<offsets, keys, values, frame, heap>>
                  /\ widths' = r.widths
                  /\ last' = [op |-> "downgrade", pre |-> Col,
                              pre_widths |-> widths,
                              status |-> r.status, asked |-> r.asked,
                              keys_ret |-> Answer(r.asked, "keys", keys_out.status),
                              values_ret |-> Answer(r.asked, "values", values_out.status),
                              calls |-> NoCalls]

\* update_rows on children whose update_rows may fail. A status is drawn for
\* a child only when the call reaches that child.
UpdateRowsChild ==
    /\ Idle
    /\ UNCHANGED <<widths, frame, heap>>
    /\ \E src \in SrcColumns :
           /\ size(src) <= size(Col)
           /\ \E indexes \in SortedIndexes(size(Col), size(src)) :
                  LET reached == update_rows(Col, src, indexes, "OK", "OK").asked
                  IN \E keys_ret \in (IF "keys" \in reached THEN ChildStatuses ELSE {"OK"}) :
                         \E values_ret \in (IF "values" \in reached /\ keys_ret = "OK"
                                            THEN ChildStatuses ELSE {"OK"}) :
                             LET r == update_rows(Col, src, indexes, keys_ret, values_ret)
                             IN /\ Fits(r.col)
                                /\ Install(r.col)
                                /\ last' = [op |-> "update_rows", pre |-> Col, src |-> src,
                                            indexes |-> indexes, path |-> r.path,
                                            status |-> r.status, asked |-> r.asked,
                                            keys_ret |-> Answer(r.asked, "keys", keys_ret),
                                            values_ret |-> Answer(r.asked, "values", values_ret),
                                            element_idxes |-> r.element_idxes,
                                            swapped |-> r.swapped, calls |-> r.calls]

\* The caller takes the result of the last operation.
Return ==
    /\ frame.pc = "idle"
    /\ last.op \notin {"construct", "none"}
    /\ UNCHANGED <<widths, frame, heap>>
    /\ UNCHANGED <<offsets, keys, values>>
    /\ last' = [op |-> "none"]

Next ==
    \/ AppendDatum
    \/ AppendRows
    \/ AppendSelective
    \/ AppendValueMultipleTimes
    \/ AppendNulls
    \/ AppendDefault
    \/ AppendDefaultN
    \/ Resize
    \/ Assign
    \/ FillDefault
    \/ UpdateRows
    \/ FilterRange
    \/ Serialize
    \/ SerializeDefault
    \/ DeserializeAndAppend
    \/ ByteSize
    \/ ByteSizeIdx
    \/ ElementMemoryUsage
    \/ SwapColumn
    \/ ResetColumn
    \/ Get
    \/ SetNull
    \/ CloneEmpty
    \/ FnvHashAt
    \/ Crc32HashAt
    \/ Return

Spec == Init /\ [][Next]_vars

----------------------------------------------------------------------------
\* Children that can fail and change representation: the column is built by
\* append_datum, then updated, upgraded and downgraded.

NextChild ==
    \/ AppendDatum
    \/ UpdateRowsChild
    \/ UpgradeIfOverflow
    \/ Downgrade
    \/ Return

SpecChild == Init /\ [][NextChild]_vars

----------------------------------------------------------------------------
\* update_rows and assign taken one statement at a time: the column is
\* built by append, then a call is started and stepped to its return.

BeginUpdateRows ==
    /\ Idle
    /\ \E src \in SrcColumns :
           /\ size(src) <= size(Col)
           /\ \E indexes \in SortedIndexes(size(Col), size(src)) :
                  /\ Fits(update_rows(Col, src, indexes, "OK", "OK").col)
                  /\ frame' = update_rows_begin(Col, src, indexes)
    /\ UNCHANGED <<offsets, keys, values, widths, heap, last>>

StepUpdateRows ==
    /\ frame.pc \in {"fast_keys", "fast_values", "rebuild_kept", "rebuild_src",
                     "rebuild_remain", "rebuild_swap"}
    /\ LET r == update_rows_step(Col, frame)
       IN /\ Install(r.this)
          /\ frame' = r.frame
    /\ UNCHANGED <<widths, heap, last>>

BeginAssign ==
    /\ Idle
    /\ \E n \in 0..MaxRows :
           \E idx \in 0..(size(Col) - 1) :
               /\ Fits(assign(Col, n, idx))
               /\ frame' = assign_begin(Col, n, idx)
    /\ UNCHANGED <<offsets, keys, values, widths, heap, last>>

StepAssign ==
    /\ frame.pc \in {"assign_append", "assign_swap", "assign_reset"}
    /\ LET r == assign_step(Col, frame)
       IN /\ Install(r.this)
          /\ frame' = r.frame
    /\ UNCHANGED <<widths, heap, last>>

\* return Status::OK() of update_rows, the end of assign.
ReturnFromCall ==
    /\ frame.pc = "return"
    /\ frame' = NoFrame
    /\ last' = [op |-> frame.op, pre |-> frame.pre, stepped |-> TRUE, calls |-> NoCalls]
    /\ UNCHANGED <<offsets, keys, values, widths, heap>>

NextSteps ==
    \/ AppendRows
    \/ BeginUpdateRows
    \/ StepUpdateRows
    \/ BeginAssign
    \/ StepAssign
    \/ ReturnFromCall
    \/ Return

SpecSteps == Init /\ [][NextSteps]_vars

----------------------------------------------------------------------------
\* filter_range on columns wider than one AVX2 batch: the column is built
\* first, then filtered once.

\* A column of n rows, row i holding i % 3 elements; every element differs.
WideColumn(n) ==
    LET offs == [j \in 1..(n + 1) |->
                    3 * ((j - 1) \div 3) + (IF (j - 1) % 3 = 2 THEN 1 ELSE 0)]
        total == offs[n + 1]
    IN [offsets |-> offs,
        keys |-> [e \in 1..total |-> e],
        values |-> [e \in 1..total |-> 1000 + e]]

WideRows == {kBatchSize * b + MaxFrom : b \in 1..MaxBatches}

\* Filter byte of row i in a stretch of kind 0 (drop), 1 (keep), 2 (alternate).
StretchByte(kind, i) == IF kind = 2 THEN i % 2 ELSE kind

\* The rows that may hold a byte of their own: the first, middle and last
\* lanes of each stretch.
OddRows(n) ==
    {p \in 0..(n - 1) :
        p % kBatchSize \in {0, 1, kBatchSize \div 2, kBatchSize - 2, kBatchSize - 1}}

\* Filters over n rows: each stretch of kBatchSize rows is of one kind, and
\* one row p (none when p = n) holds any byte of FilterDom instead.
WideFilters(n) ==
    {[j \in 1..n |-> IF j - 1 = px[1] THEN px[2]
                     ELSE StretchByte(kinds[(j - 1) \div kBatchSize], j - 1)]
     : kinds \in [0..((n - 1) \div kBatchSize) -> {0, 1, 2}],
       px \in (OddRows(n) \X FilterDom) \cup {<<n, 0>>}}

InitWide ==
    \E n \in WideRows :
        /\ offsets = WideColumn(n).offsets
        /\ keys = WideColumn(n).keys
        /\ values = WideColumn(n).values
        /\ widths = [keys |-> "narrow", values |-> "narrow"]
        /\ frame = NoFrame
        /\ heap = NoObjects
        /\ last = [op |-> "construct"]

FilterRangeWide ==
    /\ Idle
    /\ UNCHANGED <<widths, frame, heap>>
    /\ \E filter \in WideFilters(size(Col)) :
           \E from \in 0..MaxFrom :
               \E avx2 \in BOOLEAN :
                   FilterRangeWith(filter, from, avx2)

SpecFilter == InitWide /\ [][FilterRangeWide]_vars

----------------------------------------------------------------------------
\* filter_range with a filter that keeps every row, on columns of every row
\* count from 0 to past the last full batch.

IdentityRows == 0..(kBatchSize * MaxBatches + MaxFrom)

InitIdentity ==
    \E n \in IdentityRows :
        /\ offsets = WideColumn(n).offsets
        /\ keys = WideColumn(n).keys
        /\ values = WideColumn(n).values
        /\ widths = [keys |-> "narrow", values |-> "narrow"]
        /\ frame = NoFrame
        /\ heap = NoObjects
        /\ last = [op |-> "construct"]

FilterRangeIdentity ==
    /\ Idle
    /\ UNCHANGED <<widths, frame, heap>>
    /\ \E avx2 \in BOOLEAN :
           FilterRangeWith([j \in 1..size(Col) |-> 1], 0, avx2)

NextIdentity ==
    \/ FilterRangeIdentity
    \/ Return

SpecIdentity == InitIdentity /\ [][NextIdentity]_vars

----------------------------------------------------------------------------
\* Batch serialization, checksum, comparison and raw access on a column
\* built by appends.

\* What the bytes of a fresh destination buffer may hold.
FillBytes == {0, 255}

\* What an earlier column may already have written in each row's slot.
SliceStarts == {0, 4}

SerializeBatch ==
    /\ Idle
    /\ UNCHANGED <<widths, frame, heap>>
    /\ \E chunk_size \in 0..size(Col), fill \in FillBytes, start \in SliceStarts,
          slack \in 0..1 :
           LET max_one_row_size == start + max_one_element_serialize_size(Col) + slack
               dst == [j \in 1..(chunk_size * max_one_row_size) |-> fill]
               slice_sizes == [i \in 1..chunk_size |-> start]
               r == serialize_batch(Col, dst, slice_sizes, chunk_size, max_one_row_size)
           IN /\ UNCHANGED <<offsets, keys, values>>
              /\ last' = [op |-> "serialize_batch", pre |-> Col, chunk_size |-> chunk_size,
                          max_one_row_size |-> max_one_row_size, fill |-> fill,
                          slice_sizes_before |-> slice_sizes,
                          dst |-> r.dst, slice_sizes |-> r.slice_sizes, spans |-> r.spans]

\* deserialize_and_append_batch over slices that point at the slots of a
\* buffer serialize_batch filled from src (a source column, or this column).
DeserializeAndAppendBatch ==
    /\ Idle
    /\ UNCHANGED <<widths, frame, heap>>
    /\ \E src \in SrcColumns \cup {Col} :
           \E chunk_size \in 0..size(src), fill \in FillBytes, slack \in 0..1 :
               LET max_one_row_size == max_one_element_serialize_size(src) + slack
                   dst == [j \in 1..(chunk_size * max_one_row_size) |-> fill]
                   buf == serialize_batch(src, dst, [i \in 1..chunk_size |-> 0],
                                          chunk_size, max_one_row_size).dst
                   srcs == [i \in 1..chunk_size |-> (i - 1) * max_one_row_size]
                   r == deserialize_and_append_batch(Col, buf, srcs, chunk_size)
               IN /\ Fits(r.col)
                  /\ Install(r.col)
                  /\ last' = [op |-> "deserialize_and_append_batch", pre |-> Col,
                              src |-> src, chunk_size |-> chunk_size,
                              max_one_row_size |-> max_one_row_size,
                              srcs_before |-> srcs, srcs |-> r.srcs]

XorChecksum ==
    /\ Idle
    /\ UNCHANGED <<widths, frame, heap>>
    /\ \E to \in 0..size(Col) :
           \E from \in 0..to :
               /\ UNCHANGED <<offsets, keys, values>>
               /\ last' = [op |-> "xor_checksum", pre |-> Col, from |-> from, to |-> to,
                           ret |-> xor_checksum(Col, from, to)]

CompareAt ==
    /\ Idle
    /\ UNCHANGED <<widths, frame, heap>>
    /\ \E right_column \in SrcColumns \cup {Col}, hint \in {-1, 1} :
           \E left \in 0..(size(Col) - 1), right \in 0..(size(right_column) - 1) :
               /\ UNCHANGED <<offsets, keys, values>>
               /\ last' = [op |-> "compare_at", pre |-> Col, left |-> left, right |-> right,
                           right_column |-> right_column,
                           ret |-> compare_at(Col, left, right, right_column, hint)]

RawData ==
    /\ Idle
    /\ UNCHANGED <<widths, frame, heap>>
    /\ \E dcheck_on \in BOOLEAN :
           LET r == raw_data(Col, dcheck_on)
           IN /\ Install(r.col)
              /\ last' = [op |-> "raw_data", pre |-> Col, outcome |-> r.outcome]

MutableRawData ==
    /\ Idle
    /\ UNCHANGED <<widths, frame, heap>>
    /\ \E dcheck_on \in BOOLEAN :
           LET r == mutable_raw_data(Col, dcheck_on)
           IN /\ Install(r.col)
              /\ last' = [op |-> "mutable_raw_data", pre |-> Col, outcome |-> r.outcome]

NextBatch ==
    \/ AppendDatum
    \/ AppendRows
    \/ SerializeBatch
    \/ DeserializeAndAppendBatch
    \/ XorChecksum
    \/ CompareAt
    \/ RawData
    \/ MutableRawData
    \/ Return

SpecBatch == Init /\ [][NextBatch]_vars

----------------------------------------------------------------------------
\* VectorizedField: the attributes its accessors return.

FieldIds == {1, 2}
FieldNames == {"c1", "c2"}
FieldTypes == {"TYPE_INT", "TYPE_VARCHAR"}
AggregateMethods == {"STORAGE_AGGREGATE_NONE", "STORAGE_AGGREGATE_MAX", "STORAGE_AGGREGATE_MIN"}
ShortKeyLengths == {0, 10}

\* VectorizedField(id, name, type, nullable)
VectorizedField0(id, name, type, nullable) ==
    [id |-> id, name |-> name, type |-> type,
     aggregate_method |-> "STORAGE_AGGREGATE_NONE", short_key_length |-> 0,
     is_key |-> FALSE, is_nullable |-> nullable]

\* VectorizedField(id, name, type, agg, short_key_length, is_key, nullable)
VectorizedField1(id, name, type, agg, short_key_length, is_key, nullable) ==
    [id |-> id, name |-> name, type |-> type,
     aggregate_method |-> agg, short_key_length |-> short_key_length,
     is_key |-> is_key, is_nullable |-> nullable]

VectorizedFields ==
    {VectorizedField0(id, name, type, nullable)
     : id \in FieldIds, name \in FieldNames, type \in FieldTypes, nullable \in BOOLEAN}
    \cup
    {VectorizedField1(f.id, f.name, f.type, agg, skl, TRUE, f.is_nullable)
     : f \in {VectorizedField0(id, name, type, nullable)
              : id \in FieldIds, name \in FieldNames, type \in FieldTypes,
                nullable \in BOOLEAN},
       agg \in AggregateMethods, skl \in ShortKeyLengths}

\* What a move may leave in the object moved from: its string and its type
\* pointer are valid but unspecified.
MovedFrom(f) ==
    {[f EXCEPT !.name = n, !.type = t] : n \in {f.name, ""}, t \in {f.type, "nullptr"}}

copy_of(rhs) == rhs

with_type(f, type) ==
    VectorizedField1(f.id, f.name, type, f.aggregate_method, f.short_key_length,
                     f.is_key, f.is_nullable)

with_name(f, name) ==
    VectorizedField1(f.id, name, f.type, f.aggregate_method, f.short_key_length,
                     f.is_key, f.is_nullable)

\* Mutant of with_nullable: the field is built by the four-argument
\* constructor.
with_nullable_mutant(f, nullable) == VectorizedField0(f.id, f.name, f.type, nullable)

with_nullable(f, nullable) ==
    VectorizedField1(f.id, f.name, f.type, f.aggregate_method, f.short_key_length,
                     f.is_key, nullable)

\* field1 is constructed; field2 is the second field of test_copy_assign and
\* test_move_assign.
InitField ==
    /\ offsets = <<0>>
    /\ keys = <<>>
    /\ values = <<>>
    /\ widths = [keys |-> "narrow", values |-> "narrow"]
    /\ frame = NoFrame
    /\ \E f \in VectorizedFields :
           heap = [kind |-> "fields", field1 |-> f,
                   field2 |-> VectorizedField1(2, "c2", "TYPE_VARCHAR", "STORAGE_AGGREGATE_MIN",
                                               100, FALSE, TRUE)]
    /\ last = [op |-> "construct"]

FieldFrame == UNCHANGED <<offsets, keys, values, widths, frame>>

\* A field that has not been moved from.
Usable(f) == f.type # "nullptr"

\* field2 = make_shared<VectorizedField>(*field1)
CopyCtor ==
    /\ Usable(heap.field1)
    /\ FieldFrame
    /\ heap' = [heap EXCEPT !.field2 = copy_of(heap.field1)]
    /\ last' = [op |-> "copy_ctor", src |-> heap.field1]

\* field2 = make_shared<VectorizedField>(std::move(*field1))
MoveCtor ==
    /\ Usable(heap.field1)
    /\ FieldFrame
    /\ \E left \in MovedFrom(heap.field1) :
           heap' = [heap EXCEPT !.field2 = copy_of(heap.field1), !.field1 = left]
    /\ last' = [op |-> "move_ctor", src |-> heap.field1]

\* *field2 = *field1
CopyAssign ==
    /\ Usable(heap.field1)
    /\ FieldFrame
    /\ heap' = [heap EXCEPT !.field2 = copy_of(heap.field1)]
    /\ last' = [op |-> "copy_assign", src |-> heap.field1]

\* *field2 = std::move(*field1)
MoveAssign ==
    /\ Usable(heap.field1)
    /\ FieldFrame
    /\ \E left \in MovedFrom(heap.field1) :
           heap' = [heap EXCEPT !.field2 = copy_of(heap.field1), !.field1 = left]
    /\ last' = [op |-> "move_assign", src |-> heap.field1]

\* field2 = field1->with_type(type)
WithType ==
    /\ Usable(heap.field1)
    /\ FieldFrame
    /\ \E type \in FieldTypes :
           /\ heap' = [heap EXCEPT !.field2 = with_type(heap.field1, type)]
           /\ last' = [op |-> "with_type", src |-> heap.field1, arg |-> type]

\* field2 = field1->with_name(name)
WithName ==
    /\ Usable(heap.field1)
    /\ FieldFrame
    /\ \E name \in FieldNames :
           /\ heap' = [heap EXCEPT !.field2 = with_name(heap.field1, name)]
           /\ last' = [op |-> "with_name", src |-> heap.field1, arg |-> name]

\* field2 = field1->with_nullable(nullable)
WithNullable ==
    /\ Usable(heap.field1)
    /\ FieldFrame
    /\ \E nullable \in BOOLEAN :
           /\ heap' = [heap EXCEPT !.field2 = with_nullable(heap.field1, nullable)]
           /\ last' = [op |-> "with_nullable", src |-> heap.field1, arg |-> nullable]

NextField ==
    \/ CopyCtor
    \/ MoveCtor
    \/ CopyAssign
    \/ MoveAssign
    \/ WithType
    \/ WithName
    \/ WithNullable

SpecField == InitField /\ [][NextField]_vars

----------------------------------------------------------------------------
\* SparkEtlJobHandler.getEtlJobStatus. A Java string is the sequence of its
\* pieces, "" the empty sequence; a null reference has ref = "null".
NullString == <<"null">>

isNullOrEmpty(str) == str \in {NullString, <<>>}

NullHandle == [ref |-> "null", state |-> "UNKNOWN", url |-> NullString]

YarnApplicationStates ==
    {"NEW", "NEW_SAVING", "SUBMITTED", "ACCEPTED", "RUNNING", "FINISHED", "FAILED", "KILLED"}

FinalApplicationStatuses == {"UNDEFINED", "SUCCEEDED", "FAILED", "KILLED", "ENDED"}

SparkStates ==
    {"UNKNOWN", "CONNECTED", "SUBMITTED", "RUNNING", "FINISHED", "FAILED", "KILLED", "LOST"}

\* Mutant of fromYarnState: FINISHED is a success whatever the final status.
fromYarnState_mutant(state, faStatus) ==
    CASE state = "FINISHED" -> "FINISHED"
      [] state \in {"FAILED", "KILLED"} -> "CANCELLED"
      [] OTHER -> "RUNNING"

fromYarnState(state, faStatus) ==
    CASE state = "FINISHED" -> (IF faStatus = "SUCCEEDED" THEN "FINISHED" ELSE "CANCELLED")
      [] state \in {"FAILED", "KILLED"} -> "CANCELLED"
      [] OTHER -> "RUNNING"

fromSparkState(state) ==
    CASE state = "FINISHED" -> "FINISHED"
      [] state \in {"FAILED", "KILLED", "LOST"} -> "CANCELLED"
      [] OTHER -> "RUNNING"

\* new EtlStatus()
EtlStatus ==
    [state |-> "RUNNING", failMsg |-> <<>>, trackingUrl |-> <<"N/A">>, dppResult |-> "null"]

\* stderr.contains("doesn't exist in RM")
NotFoundStderr == <<"Application with id 'application_1' ", "doesn't exist in RM", ".">>

contains_not_exist(stderr) == \E i \in 1..Len(stderr) : stderr[i] = "doesn't exist in RM"

\* string concatenation
concat(a, b) == a \o b

\* Lines 272-293: the dpp result is read once the job has ended. dpp is what
\* reading and parsing the result file gives: "read failed", "null", or a
\* DppResult.
read_dpp_result(status, dpp) ==
    IF status.state \in {"FINISHED", "CANCELLED"}
    THEN IF dpp.kind \in {"read failed", "null"} THEN status
         ELSE LET with_result == [status EXCEPT !.dppResult = "dppResult"]
              IN IF status.state = "CANCELLED" /\ ~isNullOrEmpty(dpp.failedReason)
                 THEN [with_result EXCEPT !.failMsg = dpp.failedReason]
                 ELSE with_result
    ELSE status

\* in: the arguments and what the environment answers (the yarn command's
\* result, the report, the handle's state, the result file).
getEtlJobStatus(in) ==
    LET status == EtlStatus
    IN IF in.appId = NullString \/ in.appId = <<>>
       THEN [outcome |-> "IllegalStateException", status |-> "null"]
       ELSE IF in.isYarnMaster
       THEN IF in.returnCode # 0
            THEN IF in.stderr # NullString /\ contains_not_exist(in.stderr)
                 THEN [outcome |-> "return",
                       status |-> [status EXCEPT !.state = "CANCELLED",
                                                 !.failMsg = <<"spark application not found">>]]
                 ELSE [outcome |-> "LoadException", status |-> "null"]
            ELSE LET st1 == [status EXCEPT !.state = fromYarnState(in.state, in.faStatus)]
                     st2 == IF st1.state = "CANCELLED"
                            THEN IF in.state = "FINISHED"
                                 THEN [st1 EXCEPT !.failMsg = concat(<<"spark app state: ">>, <<in.faStatus>>)]
                                 ELSE [st1 EXCEPT !.failMsg = concat(<<"yarn app state: ">>, <<in.state>>)]
                            ELSE st1
                 IN IF in.handle.ref = "null"
                    THEN [outcome |-> "NullPointerException", status |-> "null"]
                    ELSE LET st3 == [st2 EXCEPT !.trackingUrl =
                                        IF in.handle.url # NullString THEN in.handle.url
                                        ELSE <<"report url">>]
                         IN [outcome |-> "return", status |-> read_dpp_result(st3, in.dpp)]
       ELSE IF in.handle.ref = "null"
            THEN [outcome |-> "return",
                  status |-> [status EXCEPT !.failMsg = <<"spark app handle is null">>,
                                            !.state = "CANCELLED"]]
            ELSE LET st1 == [status EXCEPT !.state = fromSparkState(in.handle.state)]
                     st2 == IF st1.state = "CANCELLED"
                            THEN [st1 EXCEPT !.failMsg = concat(<<"spark app state: ">>, <<in.handle.state>>)]
                            ELSE st1
                 IN [outcome |-> "return", status |-> read_dpp_result(st2, in.dpp)]

AppIds == {NullString, <<>>, <<"application_1">>}

Stderrs == {NullString, NotFoundStderr, <<"Connection refused">>}

Handles ==
    {NullHandle}
    \cup {[ref |-> "handle", state |-> st, url |-> url]
          : st \in SparkStates, url \in {NullString, <<"http://am">>}}

DppResults ==
    {[kind |-> k, failedReason |-> NullString] : k \in {"read failed", "null"}}
    \cup {[kind |-> "result", failedReason |-> r] : r \in {NullString, <<>>, <<"oom">>}}

\* What a yarn-master call reads, and what a call on a handle reads.
YarnInputs ==
    {[appId |-> a, isYarnMaster |-> TRUE, returnCode |-> rc, stderr |-> se, state |-> st,
      faStatus |-> fa, handle |-> h, dpp |-> d]
     : a \in AppIds, rc \in {0, 1}, se \in Stderrs, st \in YarnApplicationStates,
       fa \in FinalApplicationStatuses,
       h \in {h \in Handles : h.state \in {"UNKNOWN", "RUNNING"}},
       d \in DppResults}

HandleInputs ==
    {[appId |-> a, isYarnMaster |-> FALSE, returnCode |-> 0, stderr |-> NullString,
      state |-> "NEW", faStatus |-> "UNDEFINED", handle |-> h, dpp |-> d]
     : a \in AppIds, h \in Handles, d \in DppResults}

InitEtl ==
    /\ offsets = <<0>>
    /\ keys = <<>>
    /\ values = <<>>
    /\ widths = [keys |-> "narrow", values |-> "narrow"]
    /\ frame = NoFrame
    /\ heap = [kind |-> "etl", status |-> "null"]
    /\ last = [op |-> "construct"]

\* One poll of the job: the handler keeps no state between polls, every call
\* starts from a new EtlStatus.
GetEtlJobStatus ==
    /\ last.op = "construct"
    /\ UNCHANGED <<offsets, keys, values, widths, frame>>
    /\ \E in \in YarnInputs \cup HandleInputs :
           LET r == getEtlJobStatus(in)
           IN /\ heap' = [heap EXCEPT !.status = r.status]
              /\ last' = [op |-> "getEtlJobStatus", in |-> in, outcome |-> r.outcome]

SpecEtl == InitEtl /\ [][GetEtlJobStatus]_vars

----------------------------------------------------------------------------
\* StructType. A name is the sequence of its letters.

\* Most fields in the list a StructType is built from.
MaxFields == 3

\* Character.toLowerCase
toLowerChar(ch) ==
    CASE ch = "A" -> "a"
      [] ch = "B" -> "b"
      [] OTHER -> ch

\* String.toLowerCase
toLowerCase(name) == [i \in 1..Len(name) |-> toLowerChar(name[i])]

StructFieldNames == {<<"a">>, <<"A">>, <<"b">>, <<"a", "b">>, <<"A", "B">>, <<"a", "B">>}

\* The position of a StructField no StructType has taken in.
NoPosition == -1

\* A StructField; type stands for its Type and tells fields of one name
\* apart.
StructField(name, type) ==
    [ref |-> "field", name |-> name, type |-> type, position |-> NoPosition]

NullField == [ref |-> "null", name |-> <<>>, type |-> 0, position |-> NoPosition]

\* HashMap<String, StructField>: the set of its entries.
containsKey(fieldMap, key) == \E e \in fieldMap : e.key = key

map_get(fieldMap, key) ==
    IF containsKey(fieldMap, key)
    THEN (CHOOSE e \in fieldMap : e.key = key).value
    ELSE NullField

\* The loop of the constructor over structFields[i], structFields[i+1], ...
RECURSIVE StructType_loop(_, _, _)
StructType_loop(this, structFields, i) ==
    IF i > Len(structFields) THEN this
    ELSE LET field == structFields[i]
             lowerFieldName == toLowerCase(field.name)
             placed == [field EXCEPT !.position = Len(this.fields)]
         IN IF containsKey(this.fieldMap, lowerFieldName)
            THEN StructType_loop(this, structFields, i + 1)
            ELSE StructType_loop(
                     [fields |-> Append(this.fields, placed),
                      fieldMap |-> this.fieldMap
                                   \cup {[key |-> lowerFieldName, value |-> placed]}],
                     structFields, i + 1)

\* new StructType(structFields), structFields non-empty.
StructType(structFields) ==
    LET this == StructType_loop([fields |-> <<>>, fieldMap |-> {}], structFields, 1)
    IN [fields |-> this.fields, fieldMap |-> this.fieldMap,
        selectedFields |-> [i \in 1..Len(this.fields) |-> FALSE]]

getFields(this) == this.fields

getField(this, fieldName) == map_get(this.fieldMap, toLowerCase(fieldName))

\* fieldMap.get(fieldName).getPosition()
getFieldPos(this, fieldName) ==
    LET field == map_get(this.fieldMap, fieldName)
    IN IF field.ref = "null"
       THEN [outcome |-> "NullPointerException", pos |-> NoPosition]
       ELSE [outcome |-> "return", pos |-> field.position]

\* The lists of 1..MaxFields fields; the i-th field has type i.
StructFieldLists ==
    {[i \in 1..Len(names) |-> StructField(names[i], i)]
     : names \in SeqsUpTo(StructFieldNames, MaxFields) \ {<<>>}}

InitStruct ==
    /\ offsets = <<0>>
    /\ keys = <<>>
    /\ values = <<>>
    /\ widths = [keys |-> "narrow", values |-> "narrow"]
    /\ frame = NoFrame
    /\ \E structFields \in StructFieldLists :
           /\ heap = [kind |-> "struct", this |-> StructType(structFields)]
           /\ last = [op |-> "construct", structFields |-> structFields]

StructFrame == UNCHANGED <<offsets, keys, values, widths, frame, heap>>

GetFields ==
    /\ StructFrame
    /\ last' = [op |-> "getFields", structFields |-> last.structFields,
                ret |-> getFields(heap.this)]

GetField ==
    /\ StructFrame
    /\ \E fieldName \in StructFieldNames :
           last' = [op |-> "getField", structFields |-> last.structFields,
                    fieldName |-> fieldName, ret |-> getField(heap.this, fieldName)]

GetFieldPos ==
    /\ StructFrame
    /\ \E fieldName \in StructFieldNames :
           LET r == getFieldPos(heap.this, fieldName)
           IN last' = [op |-> "getFieldPos", structFields |-> last.structFields,
                       fieldName |-> fieldName, outcome |-> r.outcome, ret |-> r.pos]

NextStruct ==
    \/ GetFields
    \/ GetField
    \/ GetFieldPos

SpecStruct == InitStruct /\ [][NextStruct]_vars

----------------------------------------------------------------------------
\* Properties.

\* Row idx of a column: its key elements and its value elements.
Row(c, idx) ==
    <<SubSeq(c.keys, At(c.offsets, idx) + 1, At(c.offsets, idx + 1)),
      SubSeq(c.values, At(c.offsets, idx) + 1, At(c.offsets, idx + 1))>>

Rows(c) == [i \in 1..size(c) |-> Row(c, i - 1)]

Called == last.op \notin {"construct", "none"}

\* C1: after any sequence of operations with in-range arguments,
\* offsets.back() == keys.size() == values.size() and offsets is
\* non-decreasing.
C1_OffsetInvariant ==
    /\ back(offsets) = Len(keys)
    /\ back(offsets) = Len(values)
    /\ \A i \in 1..(Len(offsets) - 1) : offsets[i] <= offsets[i + 1]

\* A rebuilding update_rows has left a column of several rows and elements.
C1_Witness ==
    /\ last.op = "update_rows"
    /\ last.path = "rebuild"
    /\ size(Col) >= 2
    /\ Len(keys) >= 2

\* C2: every element range (from, size) an operation hands to the keys or
\* values child lies inside the child: from + size <= offsets.back().
C2_ChildRangesInBounds ==
    Called => \A call \in last.calls : call.from + call.size <= call.limit

\* C3: update_rows(src, indexes) keeps size(), makes row indexes[i] equal to
\* src row i and leaves every row not listed as it was, on either path.
C3_UpdateRows ==
    last.op = "update_rows" =>
        /\ size(Col) = size(last.pre)
        /\ \A i \in 1..Len(last.indexes) :
               Row(Col, last.indexes[i]) = Row(last.src, i - 1)
        /\ \A r \in 0..(size(last.pre) - 1) :
               (\A i \in 1..Len(last.indexes) : last.indexes[i] # r)
                   => Row(Col, r) = Row(last.pre, r)

\* The rebuild path replaced two rows and kept a non-empty row between or
\* beside them.
C3_Witness ==
    /\ last.op = "update_rows"
    /\ last.path = "rebuild"
    /\ Len(last.indexes) >= 1
    /\ \E r \in 0..(size(last.pre) - 1) :
           /\ \A i \in 1..Len(last.indexes) : last.indexes[i] # r
           /\ Row(last.pre, r)[1] # <<>>

\* The rows of [from, to) a filter keeps, in order.
RECURSIVE KeptRows(_, _, _, _)
KeptRows(c, filter, from, to) ==
    IF from >= to THEN <<>>
    ELSE IF to = from + 1
    THEN (IF At(filter, from) # 0 THEN <<Row(c, from)>> ELSE <<>>)
    ELSE LET mid == (from + to) \div 2
         IN KeptRows(c, filter, from, mid) \o KeptRows(c, filter, mid, to)

IsKeepMask(filter) == \A i \in 1..Len(filter) : filter[i] \in {0, 1}

\* C4: filter_range(filter, from, to) with to == size() and a 0/1 mask
\* leaves rows [0, from) followed by the kept rows of [from, to) in order,
\* returns the new size() = from + number of kept rows, and both children
\* hold exactly offsets.back() elements.
C4_FilterRange ==
    (last.op = "filter_range" /\ IsKeepMask(last.filter)) =>
        LET kept == KeptRows(last.pre, last.filter, last.from, last.to)
        IN /\ Rows(Col) = SubSeq(Rows(last.pre), 1, last.from) \o kept
           /\ last.ret = size(Col)
           /\ last.ret = last.from + Len(kept)
           /\ offsets[1] = 0
           /\ Len(keys) = back(offsets)
           /\ Len(values) = back(offsets)

\* The AVX2 path ran over two batches of a 0/1 mask that drops some rows and
\* keeps others.
C4_Witness ==
    /\ last.op = "filter_range"
    /\ IsKeepMask(last.filter)
    /\ last.avx2
    /\ last.to > last.from + 2 * kBatchSize
    /\ last.from < last.ret
    /\ last.ret < last.to
    /\ Len(keys) > 0

\* C5: with any filter bytes 0..255, the build with the AVX2 batch path
\* leaves the same offsets, element-level mask and return value as the
\* scalar loop alone.
C5_BatchEqualsScalar ==
    last.op = "filter_range" =>
        LET scalar == filter_range(last.pre, last.filter, last.from, last.to, FALSE)
        IN /\ Col = scalar.col
           /\ last.element_filter = scalar.element_filter
           /\ last.ret = scalar.ret

\* The bytes of a row as the layout states them: the cardinality, then
\* key, value, key, value, ...
RECURSIVE RowElemBytes(_, _)
RowElemBytes(ks, vs) ==
    IF ks = <<>> THEN <<>>
    ELSE child_serialize(Head(ks)) \o child_serialize(Head(vs))
         \o RowElemBytes(Tail(ks), Tail(vs))

RECURSIVE SumSizes(_)
SumSizes(elems) ==
    IF elems = <<>> THEN 0 ELSE child_serialize_size(Head(elems)) + SumSizes(Tail(elems))

\* C6: deserialize_and_append of the bytes serialize wrote for a row appends
\* exactly one row with that row's key/value sequence, and returns the
\* position serialize_size behind the start.
C6_RoundTrip ==
    last.op = "deserialize_and_append" =>
        /\ size(Col) = size(last.pre) + 1
        /\ Row(Col, size(last.pre)) = Row(last.src, last.idx)
        /\ SubSeq(Rows(Col), 1, size(last.pre)) = Rows(last.pre)
        /\ last.ret = serialize_size(last.src, last.idx)

\* A row of two elements, one with a null key, went through the round trip
\* into a non-empty column.
C6_Witness ==
    /\ last.op = "deserialize_and_append"
    /\ size(last.pre) >= 1
    /\ Row(Col, size(Col) - 1)[1] = <<Null, 1>>

\* C7: serialize(idx, pos) returns serialize_size(idx) = 4 + the children's
\* sizes of the row's elements and writes the cardinality as 4 bytes, then
\* key_0, value_0, key_1, value_1, ...; serialize_default writes cardinality
\* 0 and returns 4.
C7_SerializeSize ==
    /\ last.op = "serialize" =>
           LET row == Row(last.pre, last.idx)
           IN /\ last.ret = serialize_size(last.pre, last.idx)
              /\ last.ret = 4 + SumSizes(row[1]) + SumSizes(row[2])
              /\ last.bytes = EncodeU32(Len(row[1])) \o RowElemBytes(row[1], row[2])
              /\ Len(last.bytes) = last.ret
    /\ last.op = "serialize_default" =>
           /\ last.bytes = <<0, 0, 0, 0>>
           /\ last.ret = 4

\* A row of two elements, one with a null key, was serialized.
C7_Witness ==
    /\ last.op = "serialize"
    /\ Len(Row(last.pre, last.idx)[1]) = 2
    /\ \E i \in 1..2 : Row(last.pre, last.idx)[1][i] = Null

\* C8: append(src, offset, count) leaves the same offsets, keys and values
\* as append(src, offset + k, 1) for k = 0..count-1 in order, and the rows
\* already there are unchanged.
C8_AppendRange ==
    last.op = "append" =>
        /\ Col = append_selective(last.pre, last.src,
                                  [k \in 1..last.count |-> last.offset + (k - 1)],
                                  0, last.count)
        /\ SubSeq(Rows(Col), 1, size(last.pre)) = Rows(last.pre)

\* Two rows, not all empty, were appended in one call to a non-empty column.
C8_Witness ==
    /\ last.op = "append"
    /\ last.count = 2
    /\ Len(last.pre.keys) > 0
    /\ Len(keys) > Len(last.pre.keys)

\* C9: fill_default(filter) empties every non-empty row i < filter.size()
\* whose filter byte is non-zero; every other row and size() stay.
C9_FillDefault ==
    last.op = "fill_default" =>
        /\ size(Col) = size(last.pre)
        /\ \A i \in 0..(size(last.pre) - 1) :
               IF i < Len(last.filter) /\ At(last.filter, i) # 0
               THEN Row(Col, i) = <<<<>>, <<>>>>
               ELSE Row(Col, i) = Row(last.pre, i)

\* C10: upgrade_if_overflow returns the capacity error if and only if
\* size() exceeds Column::MAX_CAPACITY_LIMIT.
C10_CapacityCheck ==
    last.op = "upgrade_if_overflow" =>
        (last.status = "InternalError" <=> size(last.pre) > MAX_CAPACITY_LIMIT)

\* C11: upgrade_if_overflow and downgrade either succeed with every row's
\* logical value unchanged, or fail and leave offsets, the keys child and the
\* values child as they were before the call.
C11_WidthPromotionSafety ==
    last.op \in {"upgrade_if_overflow", "downgrade"} =>
        IF last.status = "OK"
        THEN Rows(Col) = Rows(last.pre)
        ELSE Col = last.pre /\ widths = last.pre_widths

\* The calls of C12: the children's update_rows on the fast path, their
\* upgrade once the capacity check has passed, their downgrade.
AsksChildren ==
    \/ last.op = "update_rows" /\ last.path = "fast"
    \/ last.op = "upgrade_if_overflow" /\ Len(last.pre.offsets) <= MAX_CAPACITY_LIMIT
    \/ last.op = "downgrade"

\* C12: a non-OK status of the keys or values child is the status the
\* container returns, and the values child is not asked once the keys child
\* has failed.
C12_ChildErrorPropagated ==
    AsksChildren =>
        /\ last.keys_ret \in ChildStatuses
        /\ last.keys_ret # "OK" =>
               last.status = last.keys_ret /\ last.values_ret = "NotAsked"
        /\ last.values_ret \in ChildStatuses \ {"OK"} =>
               last.status = last.values_ret

C12_Witness ==
    /\ last.op = "update_rows"
    /\ last.path = "fast"
    /\ last.indexes # <<>>
    /\ back(last.src.offsets) > 0
    /\ last.keys_ret = "OK"
    /\ last.values_ret = "NotSupported"
    /\ last.status = "NotSupported"

\* The contents the call under way installs when it runs to its end.
BuiltContents ==
    IF frame.op = "update_rows"
    THEN update_rows(frame.pre, frame.src, frame.indexes, "OK", "OK").col
    ELSE assign(frame.pre, frame.n, frame.idx)

\* C13: on the rebuild path of update_rows and in assign the column keeps
\* its original contents at every statement up to the swap, and holds the
\* fully built contents from the swap on.
C13_SwapIsOnlyMutation ==
    /\ frame.pc \in {"rebuild_kept", "rebuild_src", "rebuild_remain", "rebuild_swap",
                     "assign_append", "assign_swap"} => Col = frame.pre
    /\ (frame.pc = "assign_reset"
            \/ (frame.pc = "return" /\ frame.op = "assign")
            \/ (frame.pc = "return" /\ frame.op = "update_rows"
                    /\ need_resize(frame.pre, frame.src, frame.indexes)))
           => Col = BuiltContents

\* A rebuild has appended a replacing row to the new column and the column
\* itself, which the swap will change, is still as it was.
C13_Witness ==
    /\ frame.pc = "rebuild_kept"
    /\ frame.i >= 1
    /\ back(frame.new_map_column.offsets) > 0
    /\ BuiltContents # frame.pre
    /\ Col = frame.pre

\* C14: filter_range(mask, 0, n) with every mask byte 1 returns n and leaves
\* size(), the offsets and every row's keys and values as they were.
C14_IdentityMask ==
    (/\ last.op = "filter_range"
     /\ last.from = 0
     /\ \A j \in 1..Len(last.filter) : last.filter[j] = 1) =>
        /\ last.ret = size(last.pre)
        /\ size(Col) = size(last.pre)
        /\ offsets = last.pre.offsets
        /\ Rows(Col) = Rows(last.pre)

\* An all-true mask over a column wider than one batch, on the AVX2 build.
C14_Witness ==
    /\ last.op = "filter_range"
    /\ last.avx2
    /\ last.from = 0
    /\ size(last.pre) > kBatchSize + 1
    /\ last.filter = [j \in 1..size(last.pre) |-> 1]
    /\ last.ret = size(last.pre)
    /\ Len(keys) > kBatchSize

\* The hash of the named kind of row idx of column c.
HashOf(op, c, seed, idx) ==
    IF op = "fnv_hash_at" THEN fnv_hash_at(c, seed, idx) ELSE crc32_hash_at(c, seed, idx)

\* The data of a row in the order it is stored: its cardinality, then key
\* and value of each element.
RECURSIVE RowData(_, _)
RowData(ks, vs) ==
    IF ks = <<>> THEN <<>> ELSE <<Head(ks), Head(vs)>> \o RowData(Tail(ks), Tail(vs))

\* The data folded one after the other into the seed.
RECURSIVE Folded(_, _, _)
Folded(op, hash, data) ==
    IF data = <<>> THEN hash
    ELSE Folded(op,
                IF op = "fnv_hash_at" THEN fnv_hash(Head(data), hash)
                ELSE zlib_crc_hash(Head(data), hash),
                Tail(data))

\* C15: fnv_hash_at and crc32_hash_at depend on the seed and the row's
\* contents only: the hash is the seed folded over the cardinality and the
\* elements in storage order, and every row with the same contents, at any
\* position of this or another column, hashes to the same value.
C15_HashDeterminism ==
    last.op \in {"fnv_hash_at", "crc32_hash_at"} =>
        LET row == Row(last.pre, last.idx)
        IN /\ last.hash = Folded(last.op, last.seed,
                                 <<Len(row[1])>> \o RowData(row[1], row[2]))
           /\ \A d \in SrcColumns \cup {last.pre} :
                  \A j \in 0..(size(d) - 1) :
                      Row(d, j) = row => HashOf(last.op, d, last.seed, j) = last.hash

\* A non-empty row is hashed that also stands, with the same contents, at
\* another position of the column behind rows of other contents.
C15_Witness ==
    /\ last.op = "fnv_hash_at"
    /\ last.idx >= 1
    /\ Row(last.pre, last.idx)[1] # <<>>
    /\ \E j \in 0..(size(last.pre) - 1) :
           /\ j # last.idx
           /\ Row(last.pre, j) = Row(last.pre, last.idx)
           /\ At(last.pre.offsets, j) # At(last.pre.offsets, last.idx)

\* C16: after assign(n, idx) with idx < size() the column has n rows, each
\* with the logical value row idx had before; with n = 0 it is empty and its
\* offsets are [0].
C16_Assign ==
    last.op = "assign" =>
        /\ size(Col) = last.n
        /\ \A i \in 0..(last.n - 1) : get(Col, i) = get(last.pre, last.idx)
        /\ last.n = 0 => offsets = <<0>> /\ keys = <<>> /\ values = <<>>

\* Several copies are made of a row that is stored with a null key.
C16_Witness ==
    /\ last.op = "assign"
    /\ last.n >= 2
    /\ last.idx >= 1
    /\ Null \in {Row(last.pre, last.idx)[1][e] : e \in 1..get_map_size(last.pre, last.idx)}
    /\ get(last.pre, last.idx) # <<>>
    /\ size(Col) = last.n

\* The element indexes of row idx of column c.
ElemsOf(c, idx) == At(c.offsets, idx)..(At(c.offsets, idx + 1) - 1)

\* C17: get(idx) holds exactly the non-null keys of the row's elements, and
\* for each of them the value of the last element with that key.
C17_Get ==
    last.op = "get" =>
        LET elems == ElemsOf(last.pre, last.idx)
            live == {e \in elems : At(last.pre.keys, e) # Null}
        IN /\ DOMAIN last.res = {At(last.pre.keys, e) : e \in live}
           /\ \A k \in DOMAIN last.res :
                  last.res[k] = At(last.pre.values,
                                   SetMax({e \in live : At(last.pre.keys, e) = k}))

\* A row that holds the same key twice, with different values, is read.
C17_Witness ==
    /\ last.op = "get"
    /\ \E e1, e2 \in ElemsOf(last.pre, last.idx) :
           /\ e1 < e2
           /\ At(last.pre.keys, e1) = At(last.pre.keys, e2)
           /\ At(last.pre.keys, e1) # Null
           /\ At(last.pre.values, e1) # At(last.pre.values, e2)
           /\ last.res[At(last.pre.keys, e1)] = At(last.pre.values, e2)

\* C18: append_nulls(count), append_default() and append_default(count) add
\* count (resp. 1) empty rows at the end and change neither child nor any
\* row there was; append_nulls returns true; set_null returns false and
\* changes nothing.
C18_AppendEmptyRows ==
    /\ last.op \in {"append_nulls", "append_default", "append_default_n"} =>
           /\ size(Col) = size(last.pre) + last.count
           /\ keys = last.pre.keys
           /\ values = last.pre.values
           /\ SubSeq(offsets, 1, Len(last.pre.offsets)) = last.pre.offsets
           /\ \A i \in size(last.pre)..(size(Col) - 1) : get_map_size(Col, i) = 0
    /\ last.op = "append_nulls" => last.ret = TRUE
    /\ last.op = "set_null" => last.ret = FALSE /\ Col = last.pre

\* Several empty rows are appended by append_nulls behind rows with elements.
C18_Witness ==
    /\ last.op = "append_nulls"
    /\ last.count >= 2
    /\ back(last.pre.offsets) > 0
    /\ size(Col) = size(last.pre) + last.count

\* The smaller of two numbers.
Min(a, b) == IF a <= b THEN a ELSE b

\* C19: after resize(n), size() is n, the rows below min(n, old size) are
\* as before, the rows from the old size on are empty, and both children
\* hold offsets.back() elements.
C19_Resize ==
    last.op = "resize" =>
        /\ size(Col) = last.n
        /\ \A i \in 0..(Min(last.n, size(last.pre)) - 1) : Row(Col, i) = Row(last.pre, i)
        /\ \A i \in size(last.pre)..(last.n - 1) : Row(Col, i) = <<<<>>, <<>>>>
        /\ Len(keys) = back(offsets)
        /\ Len(values) = back(offsets)

\* A resize cuts rows with elements off a column and keeps a row.
C19_Witness ==
    /\ last.op = "resize"
    /\ last.n >= 1
    /\ last.n < size(last.pre)
    /\ Len(keys) < Len(last.pre.keys)
    /\ Len(keys) > 0

\* C20: the column constructed with an empty offset buffer has offsets [0]
\* and size() 0; in every state offsets[0] is 0 and size() is
\* len(offsets) - 1 >= 0; the same holds of the column clone_empty makes and
\* of the column swap_column leaves in the other object.
C20_Sentinel ==
    /\ last.op = "construct" => offsets = <<0>> /\ size(Col) = 0
    /\ Len(offsets) >= 1
    /\ At(offsets, 0) = 0
    /\ size(Col) = Len(offsets) - 1
    /\ last.op = "clone_empty" => last.res.offsets = <<0>> /\ size(last.res) = 0
    /\ last.op = "swap_column" => Len(last.rhs.offsets) >= 1 /\ At(last.rhs.offsets, 0) = 0

\* reset_column has emptied a column that had rows.
C20_Witness ==
    /\ last.op = "reset_column"
    /\ size(last.pre) >= 2
    /\ offsets = <<0>>
    /\ size(Col) = 0

----------------------------------------------------------------------------
\* The bytes of row idx as the layout states them.
RowBytes(c, idx) ==
    EncodeU32(Len(Row(c, idx)[1])) \o RowElemBytes(Row(c, idx)[1], Row(c, idx)[2])

\* C21: with slice_sizes initially 0 and max_one_row_size at least
\* max_one_element_serialize_size(), serialize_batch writes row i inside its
\* own slot [i * max_one_row_size, (i + 1) * max_one_row_size), so that no two
\* rows overlap, and leaves serialize_size(i) in slice_sizes[i];
\* deserialize_and_append_batch over slices pointing at the slots appends
\* chunk_size rows equal to the rows 0..chunk_size-1 in order and advances
\* each slice by the bytes it consumed.
C21_BatchRoundTrip ==
    /\ (/\ last.op = "serialize_batch"
        /\ \A i \in 1..last.chunk_size : last.slice_sizes_before[i] = 0
        /\ last.max_one_row_size >= max_one_element_serialize_size(last.pre))
       => /\ Len(last.spans) = last.chunk_size
          /\ \A i \in 0..(last.chunk_size - 1) :
                 /\ At(last.spans, i).from >= i * last.max_one_row_size
                 /\ At(last.spans, i).to <= (i + 1) * last.max_one_row_size
                 /\ At(last.slice_sizes, i) = serialize_size(last.pre, i)
                 /\ SubSeq(last.dst, i * last.max_one_row_size + 1,
                           i * last.max_one_row_size + At(last.slice_sizes, i))
                    = RowBytes(last.pre, i)
          /\ \A i, j \in 0..(last.chunk_size - 1) :
                 i < j => At(last.spans, i).to <= At(last.spans, j).from
    /\ last.op = "deserialize_and_append_batch"
       => /\ size(Col) = size(last.pre) + last.chunk_size
          /\ SubSeq(Rows(Col), 1, size(last.pre)) = Rows(last.pre)
          /\ \A i \in 0..(last.chunk_size - 1) :
                 /\ Row(Col, size(last.pre) + i) = Row(last.src, i)
                 /\ At(last.srcs, i) = At(last.srcs_before, i) + serialize_size(last.src, i)

\* Two rows of different cardinality went through the batch round trip into
\* a non-empty column.
C21_Witness ==
    /\ last.op = "deserialize_and_append_batch"
    /\ last.chunk_size = 2
    /\ size(last.pre) >= 1
    /\ Len(Row(last.src, 0)[1]) # Len(Row(last.src, 1)[1])
    /\ Row(Col, size(Col) - 1) = Row(last.src, 1)

----------------------------------------------------------------------------
\* The XOR of the numbers of a sequence.
RECURSIVE XorAll(_)
XorAll(xs) == IF xs = <<>> THEN 0 ELSE Xor(Head(xs), XorAll(Tail(xs)))

\* The cardinalities of the rows from, ..., to - 1, and the key and value
\* elements those rows hold.
Cardinalities(c, from, to) == [i \in 1..(to - from) |-> Len(Row(c, from + i - 1)[1])]

ElementsIn(col, c, from, to) == SubSeq(col, At(c.offsets, from) + 1, At(c.offsets, to))

\* C22: xor_checksum(from, to) is the XOR of the cardinalities of the rows
\* from..to-1 and of the two children's checksums over the elements of those
\* rows; with children whose checksums split over adjacent ranges,
\* xor_checksum(from, to) = xor_checksum(from, mid) XOR xor_checksum(mid, to)
\* for from <= mid <= to, and xor_checksum(from, from) = 0.
C22_XorChecksum ==
    last.op = "xor_checksum" =>
        /\ last.ret = Xor(XorAll(Cardinalities(last.pre, last.from, last.to)),
                          Xor(XorAll(ElementsIn(last.pre.keys, last.pre, last.from, last.to)),
                              XorAll(ElementsIn(last.pre.values, last.pre, last.from, last.to))))
        /\ \A mid \in last.from..last.to :
               last.ret = Xor(xor_checksum(last.pre, last.from, mid),
                              xor_checksum(last.pre, mid, last.to))
        /\ last.from = last.to => last.ret = 0
        /\ Col = last.pre

\* The checksum of two rows of different, non-zero cardinality, not starting
\* at row 0.
C22_Witness ==
    /\ last.op = "xor_checksum"
    /\ last.from >= 1
    /\ last.to = last.from + 2
    /\ Len(Row(last.pre, last.from)[1]) >= 1
    /\ Len(Row(last.pre, last.from + 1)[1]) >= 1
    /\ Len(Row(last.pre, last.from)[1]) # Len(Row(last.pre, last.from + 1)[1])
    /\ last.ret # 0

----------------------------------------------------------------------------
\* C23: append_selective(src, indexes, from, size) appends exactly size
\* rows; the k-th of them has the key/value sequence of src row
\* indexes[from + k], whether or not indexes repeat or are sorted; the rows
\* already in the column are unchanged.
C23_AppendSelective ==
    last.op = "append_selective" =>
        /\ size(Col) = size(last.pre) + last.size
        /\ \A k \in 0..(last.size - 1) :
               Row(Col, size(last.pre) + k) = Row(last.src, At(last.indexes, last.from + k))
        /\ SubSeq(Rows(Col), 1, size(last.pre)) = Rows(last.pre)

\* Two different rows gathered in descending index order into a non-empty
\* column.
C23_Witness ==
    /\ last.op = "append_selective"
    /\ size(last.pre) >= 1
    /\ last.size = 2
    /\ At(last.indexes, last.from) > At(last.indexes, last.from + 1)
    /\ Row(last.src, At(last.indexes, last.from)) # Row(last.src, At(last.indexes, last.from + 1))

\* C24: in every column state raw_data() and mutable_raw_data() fail at once,
\* hand back no pointer, and leave the column as it was.
C24_RawAccessFails ==
    last.op \in {"raw_data", "mutable_raw_data"} =>
        /\ last.outcome = "abort"
        /\ Col = last.pre

----------------------------------------------------------------------------
\* The element positions a, ..., b - 1.
RangeSeq(a, b) == [j \in 1..(b - a) |-> a + j - 1]

\* The element ranges of the rows indexes[i], indexes[i + 1], ..., one after
\* the other.
RECURSIVE RowRanges(_, _, _)
RowRanges(c, indexes, i) ==
    IF i > Len(indexes) THEN <<>>
    ELSE RangeSeq(At(c.offsets, indexes[i]), At(c.offsets, indexes[i] + 1))
         \o RowRanges(c, indexes, i + 1)

SameCardinalities ==
    \A i \in 1..Len(last.indexes) :
        Len(Row(last.src, i - 1)[1]) = Len(Row(last.pre, last.indexes[i])[1])

\* C26: update_rows takes the fast path exactly when every src row i has the
\* cardinality of the row at indexes[i], and the rebuild path otherwise; on
\* the fast path the offsets are not modified, no storage is swapped, and the
\* element indices handed to the children are the ranges
\* [offsets[indexes[i]], offsets[indexes[i] + 1]) one after the other, as
\* many as the source children hold elements.
C26_FastPath ==
    last.op = "update_rows" =>
        /\ last.path \in {"fast", "rebuild"}
        /\ last.path = "fast" <=> SameCardinalities
        /\ last.path = "fast" =>
               /\ offsets = last.pre.offsets
               /\ ~last.swapped
               /\ last.element_idxes = RowRanges(last.pre, last.indexes, 1)
               /\ Len(last.element_idxes) = Len(last.src.keys)
               /\ Len(last.element_idxes) = Len(last.src.values)

\* The fast path replaced a row that does not start the element pool, with
\* elements of its own.
C26_Witness ==
    /\ last.op = "update_rows"
    /\ last.path = "fast"
    /\ last.status = "OK"
    /\ Len(last.element_idxes) >= 1
    /\ At(last.element_idxes, 0) >= 1

\* C27: when update_rows returns a non-OK status the column is as it was
\* before the call: offsets, keys and values.
C27_FailedUpdateLeavesColumn ==
    (last.op = "update_rows" /\ last.status # "OK") => Col = last.pre

\* C28: compare_at returns -1 for every pair of rows, a row compared with
\* itself or with an identical row included, in either order of the pair.
C28_CompareAt ==
    last.op = "compare_at" =>
        /\ last.ret = -1
        /\ last.right_column = last.pre =>
               \A hint \in {-1, 1} :
                   compare_at(last.pre, last.right, last.left, last.pre, hint) = -1
        /\ Col = last.pre

\* A non-empty row was compared with itself.
C28_Witness ==
    /\ last.op = "compare_at"
    /\ last.right_column = last.pre
    /\ last.left = last.right
    /\ Row(last.pre, last.left)[1] # <<>>

----------------------------------------------------------------------------
FieldAttributes ==
    {"id", "name", "type", "aggregate_method", "short_key_length", "is_key", "is_nullable"}

\* The attribute a with_ call replaces.
Replaced ==
    CASE last.op = "with_type" -> "type"
      [] last.op = "with_name" -> "name"
      [] last.op = "with_nullable" -> "is_nullable"

----------------------------------------------------------------------------
\* The application finished successfully.
AppSucceeded(in) ==
    IF in.isYarnMaster
    THEN in.returnCode = 0 /\ in.state = "FINISHED" /\ in.faStatus = "SUCCEEDED"
    ELSE in.handle.ref # "null" /\ in.handle.state = "FINISHED"

\* The application failed, was killed or lost, finished without success, is
\* not known to the resource manager, or there is no handle to ask.
AppCancelled(in) ==
    IF in.isYarnMaster
    THEN \/ in.returnCode # 0 /\ in.stderr = NotFoundStderr
         \/ in.returnCode = 0 /\ in.state \in {"FAILED", "KILLED"}
         \/ in.returnCode = 0 /\ in.state = "FINISHED" /\ in.faStatus # "SUCCEEDED"
    ELSE \/ in.handle.ref = "null"
         \/ in.handle.ref # "null" /\ in.handle.state \in {"FAILED", "KILLED", "LOST"}

\* C29: the state getEtlJobStatus returns is FINISHED only for an
\* application that finished successfully, CANCELLED exactly for one that
\* failed, was killed (or lost, for a handle), finished without success, does
\* not exist in the resource manager, or has a null handle outside yarn mode,
\* and RUNNING for every other state; with CANCELLED a fail message is set.
C29_EtlState ==
    (last.op = "getEtlJobStatus" /\ last.outcome = "return") =>
        /\ heap.status.state \in {"FINISHED", "CANCELLED", "RUNNING"}
        /\ heap.status.state = "FINISHED" <=> AppSucceeded(last.in)
        /\ heap.status.state = "CANCELLED" <=> AppCancelled(last.in)
        /\ heap.status.state = "CANCELLED" => ~isNullOrEmpty(heap.status.failMsg)

\* A yarn application that finished with final status FAILED came back
\* CANCELLED.
C29_Witness ==
    /\ last.op = "getEtlJobStatus"
    /\ last.outcome = "return"
    /\ last.in.isYarnMaster
    /\ last.in.state = "FINISHED"
    /\ last.in.faStatus = "FAILED"
    /\ heap.status.state = "CANCELLED"
    /\ heap.status.failMsg = <<"spark app state: ", "FAILED">>

----------------------------------------------------------------------------
\* The indexes of the fields of a list that are the first of their name,
\* letter case aside.
FirstOfName(structFields) ==
    {i \in 1..Len(structFields) :
        \A j \in 1..(i - 1) :
            toLowerCase(structFields[j].name) # toLowerCase(structFields[i].name)}

\* C30: a StructType built from a non-empty list keeps, in input order, only
\* the first field of each name, letter case aside; the field kept at index
\* k has position k; getField finds a kept field under any letter case of
\* its name; getFieldPos(name) is getField(name).getPosition() for every
\* name getField finds.
C30_StructFields ==
    heap.kind = "struct" =>
        LET fields == heap.this.fields
            first == FirstOfName(last.structFields)
        IN /\ Len(fields) = Cardinality(first)
           /\ \A k \in 1..Len(fields) :
                  /\ fields[k].position = k - 1
                  /\ \E i \in first :
                         /\ fields[k].name = last.structFields[i].name
                         /\ fields[k].type = last.structFields[i].type
                         /\ Cardinality({j \in first : j < i}) = k - 1
           /\ last.op = "getFields" => last.ret = fields
           /\ last.op = "getField" =>
                  \A k \in 1..Len(fields) :
                      toLowerCase(fields[k].name) = toLowerCase(last.fieldName)
                          => last.ret = fields[k]
           /\ last.op = "getFieldPos" =>
                  (getField(heap.this, last.fieldName).ref # "null"
                      => /\ last.outcome = "return"
                         /\ last.ret = getField(heap.this, last.fieldName).position)

====
